---- MODULE Spec2Model ----
(***************************************************************************)
(* State-machine model of DynamoDBStore (src/src/dynamodb-store.ts): the   *)
(* express-session store whose get / set / touch / destroy each run a      *)
(* synchronous part, send at most one request to the DynamoDB document     *)
(* client, and finish in the continuation that invokes the callback.       *)
(* Time is in milliseconds (Date.now()); the table is a linearizable       *)
(* key-value map that applies each request atomically.                     *)
(***************************************************************************)
EXTENDS Integers, Sequences, FiniteSets, TLC

VARIABLES
  now,          \* Date.now(), milliseconds since the epoch
  touchAfter,   \* this._touchAfter, seconds (set once by the constructor)
  table,        \* the DynamoDB table: key -> item, Undef when there is none
  calls,        \* per caller: the store operation it has in progress
  hist,         \* ghost: per key, what has happened to the item (see NoHist)
  boot,         \* per bootstrap: a run of createTableIfNotExists (see IdleBoot)
  ddb,          \* what DynamoDB knows of the table 'sessions' (see MockedTable)
  conv          \* a call of deepReplaceDatesWithISOStrings (see NoConv)

vars == <<now, touchAfter, table, calls, hist, boot, ddb, conv>>

(***************************************************************************)
(* Bounds of the model.                                                    *)
(***************************************************************************)
NowStart == 1000
TickMs == 500
MaxTicks == 6
MaxTicksRace == 1
MaxTicksWindow == 1
MaxTicksWriters == 1
MaxTicksCallbacks == 2

Clients == {"c1", "c2"}
\* the callers whose callbacks throw when they are invoked
ThrowingCallers == {"c3"}
Callers == Clients \cup ThrowingCallers
Sids == {"a"}
\* the session ids of the specification that uses more than one
AllSids == {"a", "b"}
TouchAfterValues == {0, 2}

(***************************************************************************)
(* JavaScript values.  Each value is a record tagged with its type; an     *)
(* object carries the function from its own property names to values.      *)
(***************************************************************************)
Undef == [t |-> "undefined"]
Null == [t |-> "null"]
Str(s) == [t |-> "string", s |-> s]
Num(n) == [t |-> "number", n |-> n]
Bool(b) == [t |-> "boolean", b |-> b]
DateV(ms) == [t |-> "Date", ms |-> ms]
Obj(f) == [t |-> "object", f |-> f]
Arr(e) == [t |-> "array", e |-> e]
Err(name) == [t |-> "error", name |-> name]
EmptyObj == Obj(<< >>)

\* obj[k] : undefined when obj is not an object or has no such property
Prop(o, k) == IF o.t = "object" /\ k \in DOMAIN o.f THEN o.f[k] ELSE Undef

\* JavaScript truthiness (the values of this model are never NaN)
Truthy(v) ==
  CASE v.t = "undefined" -> FALSE
    [] v.t = "null" -> FALSE
    [] v.t = "number" -> v.n # 0
    [] v.t = "string" -> ("json" \in DOMAIN v) \/ v.s # ""
    [] v.t = "boolean" -> v.b
    [] OTHER -> TRUE

\* Date.prototype.toISOString: the string that names the instant
ToISOString(d) == Str("ISO-" \o ToString(d.ms) \o "Z")

RECURSIVE JsonRoundTrip(_)
\* JSON.parse(JSON.stringify(v)): undefined-valued properties are dropped,
\* undefined array elements become null, a Date becomes its ISO string.
JsonRoundTrip(v) ==
  CASE v.t = "object" ->
         Obj([k \in {x \in DOMAIN v.f : v.f[x].t # "undefined"} |-> JsonRoundTrip(v.f[k])])
    [] v.t = "array" ->
         Arr([i \in 1..Len(v.e) |->
               IF v.e[i].t = "undefined" THEN Null ELSE JsonRoundTrip(v.e[i])])
    [] v.t = "Date" -> ToISOString(v)
    [] OTHER -> v

\* a faulty variant: only the Dates that are properties of the object passed
\* are replaced
deepReplaceDatesShallow(obj) ==
  CASE obj.t = "Date" -> ToISOString(obj)
    [] obj.t = "object" ->
         Obj([key \in DOMAIN obj.f |->
               IF obj.f[key].t = "Date" THEN ToISOString(obj.f[key]) ELSE obj.f[key]])
    [] OTHER -> obj

RECURSIVE deepReplaceDatesWithISOStrings(_)
\* deep-replace-dates-with-strings.ts: a copy of the value in which every Date,
\* at any depth inside objects and arrays, is replaced by its ISO string
deepReplaceDatesWithISOStrings(obj) ==
  CASE obj.t = "Date" -> ToISOString(obj)
    [] obj.t = "array" ->
         Arr([i \in 1..Len(obj.e) |-> deepReplaceDatesWithISOStrings(obj.e[i])])
    [] obj.t = "object" ->
         Obj([key \in DOMAIN obj.f |-> deepReplaceDatesWithISOStrings(obj.f[key])])
    [] OTHER -> obj

\* A call of deepReplaceDatesWithISOStrings: the object passed (input), what
\* it was when it was passed (original, a ghost), and the value returned.
NotCalled == [t |-> "none"]
NoConv == [input |-> Undef, original |-> Undef, output |-> NotCalled]

RECURSIVE SelectDefined(_)
\* the elements of a sequence that are not undefined, in order
SelectDefined(e) ==
  IF e = << >> THEN << >>
  ELSE IF Head(e).t = "undefined" THEN SelectDefined(Tail(e))
       ELSE <<Head(e)>> \o SelectDefined(Tail(e))

RECURSIVE Marshall(_)
\* What the document client stores and reads back for a value under
\* marshallOptions { removeUndefinedValues: true, convertClassInstanceToMap: true }:
\* undefined members are removed, a class instance (a Date) becomes the map of
\* its enumerable properties (none), every other value is kept.
Marshall(v) ==
  CASE v.t = "object" ->
         Obj([k \in {x \in DOMAIN v.f : v.f[x].t # "undefined"} |-> Marshall(v.f[k])])
    [] v.t = "array" ->
         LET d == SelectDefined(v.e) IN Arr([i \in 1..Len(d) |-> Marshall(d[i])])
    [] v.t = "Date" -> EmptyObj
    [] OTHER -> v

(***************************************************************************)
(* Configuration (constructor defaults).                                   *)
(***************************************************************************)
Prefix == "session#"
HashKey == "id"
TableKey(sid) == Prefix \o sid
Keys == {TableKey(sid) : sid \in Sids}
AllKeys == {TableKey(sid) : sid \in AllSids}

\* 60 * 60 * 24 * 1000: the lifetime used when cookie.maxAge is not a number
FallbackMaxAgeMs == 60 * 60 * 24 * 1000

(***************************************************************************)
(* newExpireSecondsSinceEpochUTC(sess) evaluated at time t.                *)
(***************************************************************************)
\* a faulty variant: trusts the expiry hints carried by the session data
NewExpireFromHints(sess, t) ==
  LET maxAge == Prop(Prop(sess, "cookie"), "maxAge") IN
  IF Prop(sess, "expires").t = "number" THEN Prop(sess, "expires").n
  ELSE IF Prop(Prop(sess, "cookie"), "expires").t = "Date"
    THEN Prop(Prop(sess, "cookie"), "expires").ms \div 1000
  ELSE IF maxAge.t = "number" THEN (t + maxAge.n) \div 1000
  ELSE (t + FallbackMaxAgeMs) \div 1000

\* a faulty variant: the clock is subtracted instead of added
NewExpireCountingDown(sess, t) ==
  LET maxAge == Prop(Prop(sess, "cookie"), "maxAge") IN
  IF maxAge.t = "number" THEN (maxAge.n - t) \div 1000
  ELSE (FallbackMaxAgeMs - t) \div 1000

NewExpireSecondsSinceEpochUTC(sess, t) ==
  LET maxAge == Prop(Prop(sess, "cookie"), "maxAge") IN
  IF maxAge.t = "number" THEN (t + maxAge.n) \div 1000
  ELSE (t + FallbackMaxAgeMs) \div 1000

(***************************************************************************)
(* touch: the throttle decision (dynamodb-store.ts lines 504-519).         *)
(* Seconds with a fractional part (originalMaxAge / 1000) are kept exact   *)
(* by comparing in milliseconds.                                           *)
(***************************************************************************)
OriginalMaxAge(session) == Prop(Prop(session, "cookie"), "originalMaxAge")

\* originalMaxAge / 1000 is NaN when originalMaxAge is undefined
OmaIsNaN(session) == OriginalMaxAge(session).t \notin {"number", "null"}

\* the number originalMaxAge converts to (null converts to 0)
OmaMs(session) ==
  IF OriginalMaxAge(session).t = "number" THEN OriginalMaxAge(session).n ELSE 0

\* session.expires ? session.expires : 0
ExpiresTimeSecs(session) ==
  IF Truthy(Prop(session, "expires")) THEN Prop(session, "expires").n ELSE 0

\* timePassedSecs * 1000, when it is a number
TimePassedMs(session, t) ==
  (t \div 1000) * 1000 + OmaMs(session) - ExpiresTimeSecs(session) * 1000

\* a faulty variant: the smaller of touchAfter and a tenth of the lifetime
TouchAfterSecsSmaller(ta, session) ==
  IF ~OmaIsNaN(session) /\ ta > OmaMs(session) \div 10000
  THEN OmaMs(session) \div 10000
  ELSE ta

\* touchAfterSecsCapped: Math.floor(0.1 * (originalMaxAge / 1000)) is
\* originalMaxAge \div 10000 for an integer number of milliseconds
TouchAfterSecsCapped(ta, session) ==
  IF ~OmaIsNaN(session) /\ ta * 1000 > OmaMs(session)
  THEN OmaMs(session) \div 10000
  ELSE ta

\* a faulty variant: writes already when the time passed equals the window
TouchWritesAtWindow(ta, session, t) ==
  /\ ~OmaIsNaN(session)
  /\ TimePassedMs(session, t) >= TouchAfterSecsCapped(ta, session) * 1000

\* timePassedSecs > touchAfterSecsCapped (false when timePassedSecs is NaN)
TouchWrites(ta, session, t) ==
  /\ ~OmaIsNaN(session)
  /\ TimePassedMs(session, t) > TouchAfterSecsCapped(ta, session) * 1000

(***************************************************************************)
(* Requests to the document client, as the four operations build them.     *)
(***************************************************************************)
NoReq == [cmd |-> "none"]

\* sess: { ...session, cookie: { ...JSON.parse(JSON.stringify(session.cookie)) } }
SessAttribute(session) ==
  IF Truthy(Prop(session, "cookie"))
  THEN Obj([k \in DOMAIN session.f |->
             IF k = "cookie" THEN JsonRoundTrip(session.f[k]) ELSE session.f[k]])
  ELSE session

\* a faulty variant: the read also refreshes the item's expires
GetCommandRefreshing(sid) == [cmd |-> "update", key |-> TableKey(sid), expires |-> 0]

\* a faulty variant: the read is of the first session id's key
GetCommandOfFirstSid(sid) == [cmd |-> "get", key |-> TableKey("a")]

GetCommand(sid) == [cmd |-> "get", key |-> TableKey(sid)]

\* a faulty variant: set only rewrites expires on the item that is there
PutCommandAsUpdate(sid, session, t) ==
  [cmd |-> "update", key |-> TableKey(sid),
   expires |-> NewExpireSecondsSinceEpochUTC(session, t)]

PutCommand(sid, session, t) ==
  [cmd |-> "put", key |-> TableKey(sid),
   item |-> Obj((HashKey :> Str(TableKey(sid)))
                @@ [expires |-> Num(NewExpireSecondsSinceEpochUTC(session, t)),
                    sess |-> SessAttribute(session)])]

\* a faulty variant: touch rewrites the whole item from the data it was given
UpdateCommandAsPut(sid, session, t) == PutCommand(sid, session, t)

\* UpdateExpression 'set expires = :e'
UpdateCommand(sid, session, t) ==
  [cmd |-> "update", key |-> TableKey(sid),
   expires |-> NewExpireSecondsSinceEpochUTC(session, t)]

\* a faulty variant: ConditionExpression 'attribute_exists(id)'
DeleteCommandIfExists(sid) ==
  [cmd |-> "delete", key |-> TableKey(sid), cond |-> "attribute_exists"]

\* no ConditionExpression: the delete is unconditional
DeleteCommand(sid) == [cmd |-> "delete", key |-> TableKey(sid), cond |-> "none"]

(***************************************************************************)
(* The table's answer to a request and its effect (DynamoDB semantics:     *)
(* PutItem replaces the item, UpdateItem creates the item when there is    *)
(* none, DeleteItem of a missing item succeeds).                           *)
(***************************************************************************)
NoResp == [t |-> "none"]
OkResp == [t |-> "ok"]
ErrorResp == [t |-> "error", error |-> Err("StoreError")]

\* the errors a failing request is rejected with
StoreErrors == {Err("ThrottlingException"), Err("InternalServerError")}

ConditionFails(tbl, req) ==
  req.cmd = "delete" /\ req.cond = "attribute_exists" /\ tbl[req.key] = Undef

\* a faulty variant: a put merges its payload into the payload that is there
TableAfterMerging(tbl, req) ==
  CASE req.cmd = "put" ->
         LET old == Prop(tbl[req.key], "sess")
             new == Marshall(req.item)
             merged == IF old.t = "object"
                       THEN Obj([a \in DOMAIN old.f \cup DOMAIN new.f.sess.f |->
                                  IF a \in DOMAIN new.f.sess.f THEN new.f.sess.f[a]
                                  ELSE old.f[a]])
                       ELSE new.f.sess IN
         [tbl EXCEPT ![req.key] = Obj([new.f EXCEPT !.sess = merged])]
    [] req.cmd = "update" ->
         [tbl EXCEPT ![req.key] =
            IF @ = Undef
            THEN Obj((HashKey :> Str(req.key)) @@ [expires |-> Num(req.expires)])
            ELSE Obj([k \in DOMAIN @.f \cup {"expires"} |->
                       IF k = "expires" THEN Num(req.expires) ELSE @.f[k]])]
    [] req.cmd = "delete" /\ ~ConditionFails(tbl, req) -> [tbl EXCEPT ![req.key] = Undef]
    [] OTHER -> tbl

TableAfter(tbl, req) ==
  CASE req.cmd = "put" -> [tbl EXCEPT ![req.key] = Marshall(req.item)]
    [] req.cmd = "update" ->
         [tbl EXCEPT ![req.key] =
            IF @ = Undef
            THEN Obj((HashKey :> Str(req.key)) @@ [expires |-> Num(req.expires)])
            ELSE Obj([k \in DOMAIN @.f \cup {"expires"} |->
                       IF k = "expires" THEN Num(req.expires) ELSE @.f[k]])]
    [] req.cmd = "delete" /\ ~ConditionFails(tbl, req) -> [tbl EXCEPT ![req.key] = Undef]
    [] OTHER -> tbl

Response(tbl, req) ==
  CASE req.cmd = "get" -> [t |-> "item", item |-> tbl[req.key]]
    [] ConditionFails(tbl, req) -> ErrorResp
    [] OTHER -> OkResp

(***************************************************************************)
(* Session data the middleware passes to set and touch.                    *)
(***************************************************************************)
SessionPlain ==
  Obj([user |-> Str("u1"),
       cookie |-> Obj([maxAge |-> Num(2000), originalMaxAge |-> Num(2000)])])

\* carries a stale top-level expires hint and every kind of JSON value
SessionRich ==
  Obj([user |-> Str("u2"),
       expires |-> Num(4),
       info |-> Obj([s |-> Str("x"), n |-> Num(7), b |-> Bool(FALSE), z |-> Null,
                     u |-> Undef, o |-> Obj([k |-> Str("v")]),
                     l |-> Arr(<<Num(1), Str("a")>>)]),
       cookie |-> Obj([maxAge |-> Num(3000), originalMaxAge |-> Num(3000),
                       secure |-> Undef, path |-> Str("/")])])

\* carries Date objects: cookie.expires and a payload field
SessionDated ==
  Obj([since |-> DateV(500),
       cookie |-> Obj([maxAge |-> Num(1000), originalMaxAge |-> Num(1000),
                       expires |-> DateV(9000)])])

SessionExpiring ==
  Obj([cookie |-> Obj([maxAge |-> Num(0), originalMaxAge |-> Num(1500)])])

SessionNoHints == Obj([user |-> Str("u1"), cookie |-> EmptyObj])

SessionNullAges ==
  Obj([cookie |-> Obj([maxAge |-> Null, originalMaxAge |-> Null])])

SessionNoCookie == Obj([user |-> Str("u1")])

Sessions ==
  {SessionPlain, SessionRich, SessionDated, SessionExpiring, SessionNoHints,
   SessionNullAges, SessionNoCookie}

RaceSessions == {SessionExpiring}
WriterSessions == {SessionPlain, SessionRich}
CallbackSessions == {SessionPlain, SessionExpiring, SessionNoCookie}

\* touchAfter settings and nominal lifetimes (ms) on both sides of each other
WindowTouchAfters == {0, 2, 180, 3600}
WindowLifetimes == {0, 1500, 3000, 1799999, 1800000, 3600000, 3600001, 7200000}
WindowSessions ==
  {Obj([cookie |-> Obj([maxAge |-> Num(l), originalMaxAge |-> Num(l)])]) :
     l \in WindowLifetimes}

\* a faulty variant: a missing cookie reads as undefined properties
CookieAccessNeverThrows(session) == FALSE

\* session.cookie.maxAge / .originalMaxAge throws a TypeError
CookieAccessThrows(session) == Prop(session, "cookie").t \in {"undefined", "null"}

(***************************************************************************)
(* Ghost history of a key.                                                 *)
(*   ttlAt:  call time of the set or touch whose write last set expires    *)
(*   ttlArg: the session that call was given                               *)
(*   putArg: the session given to the set whose put last wrote the item    *)
(*   destroyedC: a destroy completed and no set has completed since        *)
(*   destroyedA: a delete was applied and no put has been applied since    *)
(***************************************************************************)
NoHist ==
  [ttlAt |-> 0, ttlArg |-> Undef, putArg |-> Undef,
   destroyedC |-> FALSE, destroyedA |-> FALSE]

(***************************************************************************)
(* The operation a caller has in progress.                                 *)
(*   phase: idle -> pending (request sent) -> answered -> done             *)
(*   cbs:   the callback invocations made so far, in order                 *)
(*   nreq:  the number of requests this call has sent                      *)
(*   window: touch's local touchAfterSecsCapped                            *)
(* Ghosts: arg (the session passed), at (Date.now() at the call), from     *)
(* (for a touch passed a get's result: the ttlAt that get read, else -1),  *)
(* found (the request found an item), failed (the request failed), and of  *)
(* the key's history when the request was served: ttlSeen (ttlAt), src     *)
(* (putArg), dzA (destroyedA); dzC (destroyedC held at a get's call and no *)
(* set has completed since).  A finished call keeps no request, response,  *)
(* or src; only a touch keeps arg and at.                                  *)
(***************************************************************************)
IdleCall ==
  [op |-> "idle", sid |-> "", phase |-> "idle", req |-> NoReq, nreq |-> 0,
   resp |-> NoResp, cbs |-> << >>, window |-> 0,
   arg |-> Undef, at |-> 0, from |-> -1, ttlSeen |-> 0, src |-> Undef,
   found |-> FALSE, failed |-> FALSE, dzA |-> FALSE, dzC |-> FALSE]

Callback(err, data) == [err |-> err, data |-> data]

Free(c) == calls[c].phase \in {"idle", "done"}

Sent(op, sid, req, session, t) ==
  [IdleCall EXCEPT !.op = op, !.sid = sid, !.phase = "pending", !.req = req,
                   !.nreq = 1, !.arg = session, !.at = t]

Finished(op, sid, cb, session, t) ==
  [IdleCall EXCEPT !.op = op, !.sid = sid, !.phase = "done", !.cbs = <<cb>>,
                   !.arg = session, !.at = t]

\* The callback invocations an operation makes when it calls back with cb.
\* A callback invoked inside the try block that throws lands in the catch
\* block, which invokes the callback again with what was thrown; the
\* invocations inside a catch block (a store error, a TypeError) have no
\* handler around them and are not repeated.
Invocations(c, cb) ==
  IF c \in ThrowingCallers /\ (cb.err = Null \/ cb.err = Err("SyntaxError"))
  THEN <<cb, Callback(Err("CallbackError"), Undef)>>
  ELSE <<cb>>

\* a call record with the invocations of caller c's callback
Invoked(c, call) ==
  IF call.phase = "done" THEN [call EXCEPT !.cbs = Invocations(c, call.cbs[1])]
  ELSE call

(***************************************************************************)
(* createTableIfNotExists (lines 225-308), started un-awaited by the       *)
(* constructor or awaited by DynamoDBStore.create (lines 346-371) when     *)
(* createTableOptions are given.  The DynamoDB client answers each request *)
(* as it likes.                                                            *)
(*   pc: idle -> describe -> create -> poll <-> sleep -> ttl -> returned,  *)
(*       or threw; the name of a request is the request awaited            *)
(*   i: the polling loop's counter; tableReady: its flag                   *)
(*   options: the createTableOptions the caller passed ("given" / "none")  *)
(*   overrides: this._createTableOptions ("given" / "none")                *)
(*   runs: the runs of createTableIfNotExists this construction started    *)
(*   thrown: the error the run threw                                       *)
(*   promise: what DynamoDBStore.create's promise has settled to           *)
(* Ghosts: sent (the requests sent, in order), first (the answer to the    *)
(* initial describe), created (the answer to createTable), polled (the     *)
(* answers the polling describes got), last (the latest answer).           *)
(***************************************************************************)
Bootstraps == {"b1"}
\* the runs of the specification in which two runs overlap
AllBootstraps == {"b1", "b2"}
BootErrors == {Err("ResourceNotFoundException"), Err("AccessDeniedException")}

\* for (let i = 0; i < 10; i++)
MaxPolls == 10

NoAnswer == [t |-> "none"]
Done == [t |-> "ok"]
Failure(e) == [t |-> "error", error |-> e]
NoTable == [t |-> "described", table |-> Undef]
Described(status) == [t |-> "described", table |-> Obj([TableStatus |-> Str(status)])]

\* the answers a describeTable can get, and a createTable / updateTimeToLive
DescribeAnswers ==
  {Failure(e) : e \in BootErrors} \cup {NoTable, Described("CREATING"), Described("ACTIVE")}
CommandAnswers == {Failure(e) : e \in BootErrors} \cup {Done}

\* What DynamoDB knows of the table: a mocked client (as in
\* dynamodb-store.mock.spec.ts) knows nothing and answers as it likes; the
\* service has no table, a table being created, or an active table whose
\* TimeToLive is enabled or not.
MockedTable == [status |-> "mocked", ttl |-> FALSE]
TableStates ==
  {[status |-> "ABSENT", ttl |-> FALSE], [status |-> "CREATING", ttl |-> FALSE],
   [status |-> "ACTIVE", ttl |-> FALSE], [status |-> "ACTIVE", ttl |-> TRUE]}

\* the answers to the three requests when DynamoDB is in state d; any request
\* can be refused for lack of permission
Refusals == {Failure(Err("AccessDeniedException"))}
DescribeAnswersAt(d) ==
  CASE d.status = "mocked" -> DescribeAnswers
    [] d.status = "ABSENT" -> Refusals \cup {Failure(Err("ResourceNotFoundException"))}
    [] OTHER -> Refusals \cup {Described(d.status)}
CreateAnswersAt(d) ==
  CASE d.status = "mocked" -> CommandAnswers
    [] d.status = "ABSENT" -> Refusals \cup {Done}
    [] OTHER -> Refusals \cup {Failure(Err("ResourceInUseException"))}
TtlAnswersAt(d) ==
  CASE d.status = "mocked" -> CommandAnswers
    [] d.status = "ABSENT" -> Refusals \cup {Failure(Err("ResourceNotFoundException"))}
    [] d.status = "CREATING" -> Refusals \cup {Failure(Err("ResourceInUseException"))}
    [] d.ttl -> Refusals \cup {Failure(Err("ValidationException"))}
    [] OTHER -> Refusals \cup {Done}

\* the state of DynamoDB after it answered a request
DdbAfter(d, cmd, answer) ==
  CASE d.status = "mocked" \/ answer # Done -> d
    [] cmd = "CreateTable" -> [d EXCEPT !.status = "CREATING"]
    [] cmd = "UpdateTimeToLive" -> [d EXCEPT !.ttl = TRUE]
    [] OTHER -> d

DescribeTableCommand == [cmd |-> "DescribeTable", TableName |-> "sessions"]
CreateTableCommand(overrides) ==
  [cmd |-> "CreateTable", TableName |-> "sessions", hashKey |-> HashKey,
   overrides |-> overrides]
UpdateTimeToLiveCommand ==
  [cmd |-> "UpdateTimeToLive", TableName |-> "sessions", AttributeName |-> "expires",
   Enabled |-> TRUE]

IdleBoot ==
  [via |-> "none", pc |-> "idle", i |-> 0, tableReady |-> FALSE,
   options |-> "none", overrides |-> "none", runs |-> 0, thrown |-> Undef, promise |-> NoAnswer,
   sent |-> << >>, first |-> NoAnswer, created |-> NoAnswer, polled |-> {},
   last |-> NoAnswer]

\* the run sends a request and awaits its answer
Awaiting(r, pc, req) == [r EXCEPT !.pc = pc, !.sent = Append(@, req)]

\* return; (create's await resumes and create returns the store)
Returned(r) ==
  [r EXCEPT !.pc = "returned",
            !.promise = IF r.via = "create" THEN Done ELSE @]

\* throw err; (create's await rethrows)
Threw(r, e) ==
  [r EXCEPT !.pc = "threw", !.thrown = e,
            !.promise = IF r.via = "create" THEN Failure(e) ELSE @]

\* describeTable.Table
HasTable(answer) == answer.t = "described" /\ Truthy(answer.table)

\* describeTable.Table && describeTable.Table.TableStatus === 'ACTIVE'
IsActive(answer) ==
  HasTable(answer) /\ Prop(answer.table, "TableStatus") = Str("ACTIVE")

\* a faulty variant: create constructs the store with the options as given,
\* so that the constructor starts a run of its own
StartBootKeepingOptions(via, options) ==
  LET fromConstructor == IF options # "none" THEN 1 ELSE 0
      fromCreate == IF via = "create" /\ options # "none" THEN 1 ELSE 0
      r == [IdleBoot EXCEPT !.via = via, !.options = options, !.overrides = options,
                            !.runs = fromConstructor + fromCreate] IN
  IF r.runs = 0
  THEN [r EXCEPT !.promise = IF via = "create" THEN Done ELSE @]
  ELSE Awaiting(r, "describe", DescribeTableCommand)

\* lines 321-351, 360-372: the constructor keeps the createTableOptions it is
\* given and starts a run if it is given any; create deletes them from the
\* options it constructs the store with, and then awaits a run if it was
\* given any; with no run to await, create returns the store at once
StartBoot(via, options) ==
  LET constructed == IF via = "create" THEN "none" ELSE options
      fromConstructor == IF constructed # "none" THEN 1 ELSE 0
      fromCreate == IF via = "create" /\ options # "none" THEN 1 ELSE 0
      r == [IdleBoot EXCEPT !.via = via, !.options = options,
                            !.overrides = constructed,
                            !.runs = fromConstructor + fromCreate] IN
  IF r.runs = 0
  THEN [r EXCEPT !.promise = IF via = "create" THEN Done ELSE @]
  ELSE Awaiting(r, "describe", DescribeTableCommand)

\* a faulty variant: only an ACTIVE table counts as existing
AfterInitialDescribeIfActive(r, answer) ==
  LET r1 == [r EXCEPT !.first = answer, !.last = answer] IN
  IF IsActive(answer) THEN Returned(r1)
  ELSE Awaiting(r1, "create", CreateTableCommand(r.overrides))

\* lines 232-260: after the initial describe
AfterInitialDescribe(r, answer) ==
  LET r1 == [r EXCEPT !.first = answer, !.last = answer] IN
  IF HasTable(answer) THEN Returned(r1)
  ELSE Awaiting(r1, "create", CreateTableCommand(r.overrides))

\* a faulty variant: a failed createTable is logged and the run goes on
AfterCreateTableLenient(r, answer) ==
  Awaiting([r EXCEPT !.last = answer, !.created = answer, !.i = 0,
                     !.tableReady = FALSE],
           "poll", DescribeTableCommand)

\* lines 261-270, 304-307: after createTable
AfterCreateTable(r, answer) ==
  LET r1 == [r EXCEPT !.last = answer, !.created = answer] IN
  IF answer.t = "error" THEN Threw(r1, answer.error)
  ELSE Awaiting([r1 EXCEPT !.i = 0, !.tableReady = FALSE], "poll", DescribeTableCommand)

\* a faulty variant: any described table ends the polling
AfterPollAnyTable(r, answer) ==
  LET r1 == [r EXCEPT !.last = answer, !.polled = @ \cup {answer}] IN
  IF HasTable(answer)
  THEN Awaiting([r1 EXCEPT !.tableReady = TRUE], "ttl", UpdateTimeToLiveCommand)
  ELSE [r1 EXCEPT !.pc = "sleep"]

\* lines 271-301: after a polling describe
AfterPoll(r, answer) ==
  LET r1 == [r EXCEPT !.last = answer, !.polled = @ \cup {answer}] IN
  IF IsActive(answer)
  THEN Awaiting([r1 EXCEPT !.tableReady = TRUE], "ttl", UpdateTimeToLiveCommand)
  ELSE [r1 EXCEPT !.pc = "sleep"]

\* a faulty variant: a table that never became active gets its TTL set anyway
AfterSleepThenTtl(r) ==
  IF r.i + 1 < MaxPolls
  THEN Awaiting([r EXCEPT !.i = @ + 1], "poll", DescribeTableCommand)
  ELSE Awaiting([r EXCEPT !.i = @ + 1], "ttl", UpdateTimeToLiveCommand)

\* a faulty variant: the loop test is i <= 10
AfterSleepOneMore(r) ==
  IF r.i + 1 <= MaxPolls
  THEN Awaiting([r EXCEPT !.i = @ + 1], "poll", DescribeTableCommand)
  ELSE Returned([r EXCEPT !.i = @ + 1])

\* lines 263, 283-289: after sleep(3000), i++ and the loop test
AfterSleep(r) ==
  IF r.i + 1 < MaxPolls
  THEN Awaiting([r EXCEPT !.i = @ + 1], "poll", DescribeTableCommand)
  ELSE Returned([r EXCEPT !.i = @ + 1])

\* a faulty variant: a failed updateTimeToLive is logged and the run returns
AfterUpdateTimeToLiveLenient(r, answer) == Returned([r EXCEPT !.last = answer])

\* lines 293-307: after updateTimeToLive
AfterUpdateTimeToLive(r, answer) ==
  LET r1 == [r EXCEPT !.last = answer] IN
  IF answer.t = "error" THEN Threw(r1, answer.error) ELSE Returned(r1)

BootStart(b, via, options) ==
  /\ boot[b].pc \in {"idle", "returned", "threw"}
  /\ boot' = [boot EXCEPT ![b] = StartBoot(via, options)]
  /\ UNCHANGED <<conv, now, touchAfter, table, calls, hist, ddb>>

BootDescribed(b) ==
  /\ boot[b].pc = "describe"
  /\ \E answer \in DescribeAnswersAt(ddb) :
       boot' = [boot EXCEPT ![b] = AfterInitialDescribe(@, answer)]
  /\ UNCHANGED <<conv, now, touchAfter, table, calls, hist, ddb>>

BootCreated(b) ==
  /\ boot[b].pc = "create"
  /\ \E answer \in CreateAnswersAt(ddb) :
       /\ boot' = [boot EXCEPT ![b] = AfterCreateTable(@, answer)]
       /\ ddb' = DdbAfter(ddb, "CreateTable", answer)
  /\ UNCHANGED <<conv, now, touchAfter, table, calls, hist>>

BootPolled(b) ==
  /\ boot[b].pc = "poll"
  /\ \E answer \in DescribeAnswersAt(ddb) :
       boot' = [boot EXCEPT ![b] = AfterPoll(@, answer)]
  /\ UNCHANGED <<conv, now, touchAfter, table, calls, hist, ddb>>

BootSlept(b) ==
  /\ boot[b].pc = "sleep"
  /\ boot' = [boot EXCEPT ![b] = AfterSleep(@)]
  /\ UNCHANGED <<conv, now, touchAfter, table, calls, hist, ddb>>

BootTtlUpdated(b) ==
  /\ boot[b].pc = "ttl"
  /\ \E answer \in TtlAnswersAt(ddb) :
       /\ boot' = [boot EXCEPT ![b] = AfterUpdateTimeToLive(@, answer)]
       /\ ddb' = DdbAfter(ddb, "UpdateTimeToLive", answer)
  /\ UNCHANGED <<conv, now, touchAfter, table, calls, hist>>

\* DynamoDB finishes creating the table
TableActivates ==
  /\ ddb.status = "CREATING"
  /\ ddb' = [ddb EXCEPT !.status = "ACTIVE"]
  /\ UNCHANGED <<conv, now, touchAfter, table, calls, hist, boot>>

InitWith(touchAfters) ==
  /\ now = NowStart
  /\ touchAfter \in touchAfters
  /\ table = [k \in AllKeys |-> Undef]
  /\ calls = [c \in Callers |-> IdleCall]
  /\ hist = [k \in AllKeys |-> NoHist]
  /\ boot = [b \in AllBootstraps |-> IdleBoot]
  /\ ddb = MockedTable
  /\ conv = NoConv

Init == InitWith(TouchAfterValues)

(***************************************************************************)
(* get, lines 387-395: send the read.                                      *)
(***************************************************************************)
GetCall(sid, t) == Sent("get", sid, GetCommand(sid), Undef, t)

\* a faulty variant: a get waits until no run of createTableIfNotExists is
\* under way or has failed
GetAfterBoot(c, sid) ==
  /\ \A b \in DOMAIN boot : boot[b].pc \in {"idle", "returned"}
  /\ Free(c)
  /\ calls' = [calls EXCEPT ![c] =
                 [GetCall(sid, now) EXCEPT !.dzC = hist[TableKey(sid)].destroyedC]]
  /\ UNCHANGED <<conv, boot, ddb, now, touchAfter, table, hist>>

Get(c, sid) ==
  /\ Free(c)
  /\ calls' = [calls EXCEPT ![c] =
                 [GetCall(sid, now) EXCEPT !.dzC = hist[TableKey(sid)].destroyedC]]
  /\ UNCHANGED <<conv, boot, ddb, now, touchAfter, table, hist>>

(***************************************************************************)
(* set, lines 451-469: compute expires and the sess attribute, send the    *)
(* put; a TypeError thrown while building the item goes to the callback.   *)
(***************************************************************************)
SetCall(sid, session, t) ==
  IF CookieAccessThrows(session)
  THEN Finished("set", sid, Callback(Err("TypeError"), Undef), session, t)
  ELSE Sent("set", sid, PutCommand(sid, session, t), session, t)

Set(c, sid, session) ==
  /\ Free(c)
  /\ calls' = [calls EXCEPT ![c] = Invoked(c, SetCall(sid, session, now))]
  /\ UNCHANGED <<conv, boot, ddb, now, touchAfter, table, hist>>

(***************************************************************************)
(* touch, lines 501-536: decide, then send the update or call back at once.*)
(***************************************************************************)
TouchCall(ta, sid, session, t) ==
  IF CookieAccessThrows(session)
  THEN Finished("touch", sid, Callback(Err("TypeError"), Undef), session, t)
  ELSE [(IF TouchWrites(ta, session, t)
         THEN Sent("touch", sid, UpdateCommand(sid, session, t), session, t)
         ELSE Finished("touch", sid, Callback(Null, Undef), session, t))
        EXCEPT !.window = TouchAfterSecsCapped(ta, session)]

\* a faulty variant: a touch made while another caller's update of the same
\* session is in flight counts that update as its own and sends nothing
TouchDeduplicated(c, sid, session) ==
  LET call == TouchCall(touchAfter, sid, session, now)
      inFlight == \E d \in Callers \ {c} :
                    /\ calls[d].op = "touch" /\ calls[d].sid = sid
                    /\ calls[d].phase \in {"pending", "answered"} IN
  /\ Free(c)
  /\ calls' = [calls EXCEPT ![c] =
       IF inFlight /\ call.phase = "pending"
       THEN [Finished("touch", sid, Callback(Null, Undef), session, now)
               EXCEPT !.window = call.window]
       ELSE Invoked(c, call)]
  /\ UNCHANGED <<conv, boot, ddb, now, touchAfter, table, hist>>

Touch(c, sid, session) ==
  /\ Free(c)
  /\ calls' = [calls EXCEPT ![c] = Invoked(c, TouchCall(touchAfter, sid, session, now))]
  /\ UNCHANGED <<conv, boot, ddb, now, touchAfter, table, hist>>

\* the session a caller's finished get delivered, if it delivered one
GotSession(c) ==
  IF /\ calls[c].op = "get" /\ calls[c].phase = "done"
     /\ calls[c].cbs[1].err = Null /\ calls[c].cbs[1].data.t = "object"
  THEN calls[c].cbs[1].data
  ELSE Undef

\* the middleware's flow: touch with the session the get just returned
TouchGot(c) ==
  /\ GotSession(c) # Undef
  /\ calls' = [calls EXCEPT ![c] =
                 [Invoked(c, TouchCall(touchAfter, calls[c].sid, GotSession(c), now))
                  EXCEPT !.from = calls[c].ttlSeen]]
  /\ UNCHANGED <<conv, boot, ddb, now, touchAfter, table, hist>>

(***************************************************************************)
(* destroy, lines 560-567: send the delete.                                *)
(***************************************************************************)
DestroyCall(sid, t) == Sent("destroy", sid, DeleteCommand(sid), Undef, t)

Destroy(c, sid) ==
  /\ Free(c)
  /\ calls' = [calls EXCEPT ![c] = DestroyCall(sid, now)]
  /\ UNCHANGED <<conv, boot, ddb, now, touchAfter, table, hist>>

(***************************************************************************)
(* The table serves a pending request, or the request fails.               *)
(***************************************************************************)
HistAfter(h, call, tbl) ==
  CASE call.req.cmd = "put" ->
         [h EXCEPT !.ttlAt = call.at, !.ttlArg = call.arg, !.putArg = call.arg,
                   !.destroyedA = FALSE]
    [] call.req.cmd = "update" -> [h EXCEPT !.ttlAt = call.at, !.ttlArg = call.arg]
    [] call.req.cmd = "delete" /\ tbl[call.req.key] = Undef ->
         [h EXCEPT !.ttlAt = 0, !.ttlArg = Undef, !.putArg = Undef,
                   !.destroyedA = TRUE]
    [] OTHER -> h

StoreApply(c) ==
  LET call == calls[c]
      req == call.req IN
  /\ call.phase = "pending"
  /\ table' = TableAfter(table, req)
  /\ calls' = [calls EXCEPT ![c] =
       [call EXCEPT !.phase = "answered", !.resp = Response(table, req),
                    !.found = table[req.key] # Undef,
                    !.ttlSeen = hist[req.key].ttlAt, !.src = hist[req.key].putArg,
                    !.dzA = hist[req.key].destroyedA]]
  /\ hist' = [hist EXCEPT ![req.key] = HistAfter(@, call, table')]
  /\ UNCHANGED <<conv, boot, ddb, now, touchAfter>>

StoreFail(c) ==
  /\ calls[c].phase = "pending"
  /\ \E e \in StoreErrors :
       calls' = [calls EXCEPT ![c] =
         [@ EXCEPT !.phase = "answered", !.resp = [t |-> "error", error |-> e],
                   !.failed = TRUE]]
  /\ UNCHANGED <<conv, boot, ddb, now, touchAfter, table, hist>>

(***************************************************************************)
(* The continuations: what each operation passes to its callback.          *)
(***************************************************************************)
\* a faulty variant: no check of the item's expires
GetResultIgnoringExpiry(resp, t) ==
  IF resp.t = "error" THEN Callback(resp.error, Undef)
  ELSE LET Item == IF resp.t = "item" THEN resp.item ELSE Undef IN
    IF ~Truthy(Item) THEN Callback(Null, Null)
    ELSE IF ~Truthy(Prop(Item, "sess")) THEN Callback(Null, Null)
    ELSE Callback(Null, Prop(Item, "sess"))

\* a faulty variant: delivers the whole item instead of its sess attribute
GetResultWholeItem(resp, t) ==
  IF resp.t = "error" THEN Callback(resp.error, Undef)
  ELSE LET Item == IF resp.t = "item" THEN resp.item ELSE Undef IN
    IF ~Truthy(Item) THEN Callback(Null, Null)
    ELSE IF Truthy(Prop(Item, "expires")) /\ Prop(Item, "expires").n * 1000 < t
      THEN Callback(Null, Null)
    ELSE IF ~Truthy(Prop(Item, "sess")) THEN Callback(Null, Null)
    ELSE Callback(Null, Item)

\* a faulty variant: no check that the item has a sess attribute
GetResultNoSessCheck(resp, t) ==
  IF resp.t = "error" THEN Callback(resp.error, Undef)
  ELSE LET Item == IF resp.t = "item" THEN resp.item ELSE Undef IN
    IF ~Truthy(Item) THEN Callback(Null, Null)
    ELSE IF Truthy(Prop(Item, "expires")) /\ Prop(Item, "expires").n * 1000 < t
      THEN Callback(Null, Null)
    ELSE Callback(Null, Prop(Item, "sess"))

\* a faulty variant: a string payload is delivered as the string it is
GetResultUnparsed(resp, t) ==
  IF resp.t = "error" THEN Callback(resp.error, Undef)
  ELSE LET Item == IF resp.t = "item" THEN resp.item ELSE Undef IN
    IF ~Truthy(Item) THEN Callback(Null, Null)
    ELSE IF Truthy(Prop(Item, "expires")) /\ Prop(Item, "expires").n * 1000 < t
      THEN Callback(Null, Null)
    ELSE IF ~Truthy(Prop(Item, "sess")) THEN Callback(Null, Null)
    ELSE Callback(Null, Prop(Item, "sess"))

\* a faulty variant: a payload that does not parse reads as no session
GetResultHidingParseError(resp, t) ==
  IF resp.t = "error" THEN Callback(resp.error, Undef)
  ELSE LET Item == IF resp.t = "item" THEN resp.item ELSE Undef IN
    IF ~Truthy(Item) THEN Callback(Null, Null)
    ELSE IF Truthy(Prop(Item, "expires")) /\ Prop(Item, "expires").n * 1000 < t
      THEN Callback(Null, Null)
    ELSE IF ~Truthy(Prop(Item, "sess")) THEN Callback(Null, Null)
    ELSE IF Prop(Item, "sess").t = "string"
      THEN IF "json" \in DOMAIN Prop(Item, "sess")
           THEN Callback(Null, Prop(Item, "sess").json)
           ELSE Callback(Null, Null)
    ELSE Callback(Null, Prop(Item, "sess"))

\* a faulty variant: a row is expired from the instant expires names
GetResultExpiredAtEqual(resp, t) ==
  IF resp.t = "error" THEN Callback(resp.error, Undef)
  ELSE LET Item == IF resp.t = "item" THEN resp.item ELSE Undef IN
    IF ~Truthy(Item) THEN Callback(Null, Null)
    ELSE IF Truthy(Prop(Item, "expires")) /\ Prop(Item, "expires").n * 1000 <= t
      THEN Callback(Null, Null)
    ELSE IF ~Truthy(Prop(Item, "sess")) THEN Callback(Null, Null)
    ELSE IF Prop(Item, "sess").t = "string"
      THEN IF "json" \in DOMAIN Prop(Item, "sess")
           THEN Callback(Null, Prop(Item, "sess").json)
           ELSE Callback(Err("SyntaxError"), Undef)
    ELSE Callback(Null, Prop(Item, "sess"))

\* get, lines 397-425
GetResult(resp, t) ==
  IF resp.t = "error" THEN Callback(resp.error, Undef)
  ELSE LET Item == IF resp.t = "item" THEN resp.item ELSE Undef IN
    IF ~Truthy(Item) THEN Callback(Null, Null)
    ELSE IF Truthy(Prop(Item, "expires")) /\ Prop(Item, "expires").n * 1000 < t
      THEN Callback(Null, Null)
    ELSE IF ~Truthy(Prop(Item, "sess")) THEN Callback(Null, Null)
    ELSE IF Prop(Item, "sess").t = "string"
      THEN IF "json" \in DOMAIN Prop(Item, "sess")
           THEN Callback(Null, Prop(Item, "sess").json)
           ELSE Callback(Err("SyntaxError"), Undef)
    ELSE Callback(Null, Prop(Item, "sess"))

\* a faulty variant: the store's error is replaced by a generic one
WriteResultWrapping(resp) ==
  IF resp.t = "error" THEN Callback(Err("Error"), Undef) ELSE Callback(Null, Undef)

\* set, touch, destroy: callback(null) after the await, callback(err) on a throw
WriteResult(resp) ==
  IF resp.t = "error" THEN Callback(resp.error, Undef) ELSE Callback(Null, Undef)

Return(c) ==
  LET call == calls[c]
      key == TableKey(call.sid)
      cb == IF call.op = "get" THEN GetResult(call.resp, now) ELSE WriteResult(call.resp)
      setDone == call.op = "set" /\ cb.err = Null
      destroyDone == call.op = "destroy" /\ cb.err = Null IN
  /\ call.phase = "answered"
  /\ calls' = [d \in Callers |->
       IF d = c
       THEN [call EXCEPT !.phase = "done", !.cbs = Invocations(c, cb), !.req = NoReq,
                         !.resp = NoResp, !.src = Undef,
                         !.arg = IF call.op = "touch" THEN @ ELSE Undef,
                         !.at = IF call.op = "touch" THEN @ ELSE 0]
       ELSE IF setDone /\ calls[d].op = "get" /\ calls[d].sid = call.sid
               /\ calls[d].phase # "done"
            THEN [calls[d] EXCEPT !.dzC = FALSE]
            ELSE calls[d]]
  /\ hist' = [hist EXCEPT ![key] =
       IF setDone THEN [@ EXCEPT !.destroyedC = FALSE]
       ELSE IF destroyDone THEN [@ EXCEPT !.destroyedC = TRUE]
       ELSE @]
  /\ UNCHANGED <<conv, boot, ddb, now, touchAfter, table>>

(***************************************************************************)
(* The environment: DynamoDB's TTL sweep removes an item whose expires has *)
(* passed, at some later time of its choosing; the clock advances.         *)
(***************************************************************************)
TtlSweep(k) ==
  /\ table[k] # Undef
  /\ Prop(table[k], "expires").t = "number"
  /\ Prop(table[k], "expires").n * 1000 < now
  /\ table' = [table EXCEPT ![k] = Undef]
  /\ hist' = [hist EXCEPT ![k] = [@ EXCEPT !.ttlAt = 0, !.ttlArg = Undef, !.putArg = Undef]]
  /\ UNCHANGED <<conv, boot, ddb, now, touchAfter, calls>>

Tick(maxTicks) ==
  /\ now + TickMs <= NowStart + maxTicks * TickMs
  /\ now' = now + TickMs
  /\ UNCHANGED <<conv, boot, ddb, touchAfter, table, calls, hist>>

\* every step of the store used by `callers` on `sids` with `sessions`
Step(callers, sids, sessions, maxTicks) ==
  \/ \E c \in callers, sid \in sids : Get(c, sid)
  \/ \E c \in callers, sid \in sids, session \in sessions : Set(c, sid, session)
  \/ \E c \in callers, sid \in sids, session \in sessions : Touch(c, sid, session)
  \/ \E c \in callers : TouchGot(c)
  \/ \E c \in callers, sid \in sids : Destroy(c, sid)
  \/ \E c \in callers : StoreApply(c)
  \/ \E c \in callers : StoreFail(c)
  \/ \E c \in callers : Return(c)
  \/ \E sid \in sids : TtlSweep(TableKey(sid))
  \/ Tick(maxTicks)

(***************************************************************************)
(* Spec: one caller issuing one operation after another, every kind of     *)
(* session data, the full clock range.                                     *)
(***************************************************************************)
Next == Step({"c1"}, Sids, Sessions, MaxTicks)

Spec == Init /\ [][Next]_vars

(***************************************************************************)
(* SpecRace: two callers whose operations on one session id overlap.       *)
(***************************************************************************)
NextRace == Step(Clients, Sids, RaceSessions, MaxTicksRace)

SpecRace == Init /\ [][NextRace]_vars

(***************************************************************************)
(* SpecWindow: one caller, production-sized touchAfter settings and        *)
(* session lifetimes.                                                      *)
(***************************************************************************)
InitWindow == InitWith(WindowTouchAfters)

NextWindow == Step({"c1"}, Sids, WindowSessions, MaxTicksWindow)

SpecWindow == InitWindow /\ [][NextWindow]_vars

(***************************************************************************)
(* SpecWriters: two callers whose sets (of different data), destroys and   *)
(* gets on one session id overlap.                                         *)
(***************************************************************************)
NextWriters ==
  \/ \E c \in {"c1", "c2"}, sid \in Sids : Get(c, sid)
  \/ \E c \in {"c1", "c2"}, sid \in Sids, session \in WriterSessions : Set(c, sid, session)
  \/ \E c \in {"c1", "c2"}, sid \in Sids : Destroy(c, sid)
  \/ \E c \in {"c1", "c2"} : StoreApply(c)
  \/ \E c \in {"c1", "c2"} : StoreFail(c)
  \/ \E c \in {"c1", "c2"} : Return(c)
  \/ Tick(MaxTicksWriters)

SpecWriters == Init /\ [][NextWriters]_vars

(***************************************************************************)
(* SpecCallbacks: one caller whose callbacks throw.                        *)
(***************************************************************************)
NextCallbacks == Step(ThrowingCallers, Sids, CallbackSessions, MaxTicksCallbacks)

SpecCallbacks == Init /\ [][NextCallbacks]_vars

(***************************************************************************)
(* SpecBoot: createTableIfNotExists against a client that answers each     *)
(* request as it likes.                                                    *)
(***************************************************************************)
NextBoot ==
  \/ \E b \in Bootstraps, via \in {"constructor", "create"},
          options \in {"given", "none"} : BootStart(b, via, options)
  \/ \E b \in Bootstraps : BootDescribed(b)
  \/ \E b \in Bootstraps : BootCreated(b)
  \/ \E b \in Bootstraps : BootPolled(b)
  \/ \E b \in Bootstraps : BootSlept(b)
  \/ \E b \in Bootstraps : BootTtlUpdated(b)

SpecBoot == Init /\ [][NextBoot]_vars

\* SpecBootFair: the client answers every request it is sent, and
\* sleep(3000) ends
BootProgress ==
  \E b \in Bootstraps :
    BootDescribed(b) \/ BootCreated(b) \/ BootPolled(b) \/ BootSlept(b) \/ BootTtlUpdated(b)

SpecBootFair == SpecBoot /\ WF_vars(BootProgress)

(***************************************************************************)
(* SpecTable: createTableIfNotExists against DynamoDB, which answers from  *)
(* the state the table is in.                                              *)
(***************************************************************************)
InitTable ==
  /\ now = NowStart
  /\ touchAfter \in TouchAfterValues
  /\ table = [k \in AllKeys |-> Undef]
  /\ calls = [c \in Callers |-> IdleCall]
  /\ hist = [k \in AllKeys |-> NoHist]
  /\ boot = [b \in AllBootstraps |-> IdleBoot]
  /\ ddb \in TableStates
  /\ conv = NoConv

NextTable ==
  \/ NextBoot
  \/ TableActivates

SpecTable == InitTable /\ [][NextTable]_vars

(***************************************************************************)
(* SpecTwoBoots: two stores are created with createTableOptions for the    *)
(* same table, which does not exist; their runs overlap.                   *)
(***************************************************************************)
InitTwoBoots ==
  /\ now = NowStart
  /\ touchAfter \in TouchAfterValues
  /\ table = [k \in AllKeys |-> Undef]
  /\ calls = [c \in Callers |-> IdleCall]
  /\ hist = [k \in AllKeys |-> NoHist]
  /\ boot = [b \in AllBootstraps |-> IdleBoot]
  /\ ddb = [status |-> "ABSENT", ttl |-> FALSE]
  /\ conv = NoConv

NextTwoBoots ==
  \/ \E b \in AllBootstraps, via \in {"constructor", "create"} : BootStart(b, via, "given")
  \/ \E b \in AllBootstraps : BootDescribed(b)
  \/ \E b \in AllBootstraps : BootCreated(b)
  \/ \E b \in AllBootstraps : BootPolled(b)
  \/ \E b \in AllBootstraps : BootSlept(b)
  \/ \E b \in AllBootstraps : BootTtlUpdated(b)
  \/ TableActivates

SpecTwoBoots == InitTwoBoots /\ [][NextTwoBoots]_vars

(***************************************************************************)
(* SpecBootOps: a store constructed with createTableOptions, used while    *)
(* the run the constructor started is under way, has returned or has       *)
(* thrown.                                                                 *)
(***************************************************************************)
BootOpsSessions == {SessionPlain}

NextBootOps ==
  \/ \E b \in Bootstraps : BootStart(b, "constructor", "given")
  \/ \E b \in Bootstraps : BootDescribed(b)
  \/ \E b \in Bootstraps : BootCreated(b)
  \/ \E b \in Bootstraps : BootPolled(b)
  \/ \E b \in Bootstraps : BootSlept(b)
  \/ \E b \in Bootstraps : BootTtlUpdated(b)
  \/ TableActivates
  \/ \E sid \in Sids : Get("c1", sid)
  \/ \E sid \in Sids, session \in BootOpsSessions : Set("c1", sid, session)
  \/ \E sid \in Sids, session \in BootOpsSessions : Touch("c1", sid, session)
  \/ \E sid \in Sids : Destroy("c1", sid)
  \/ StoreApply("c1")
  \/ StoreFail("c1")
  \/ Return("c1")

SpecBootOps == InitTable /\ [][NextBootOps]_vars

(***************************************************************************)
(* SpecKeys: one caller using two session ids.                             *)
(***************************************************************************)
MaxTicksKeys == 1
KeySessions == {SessionPlain, SessionExpiring}

NextKeys == Step({"c1"}, AllSids, KeySessions, MaxTicksKeys)

SpecKeys == Init /\ [][NextKeys]_vars

(***************************************************************************)
(* SpecExpiry: two callers setting and touching one session id with the    *)
(* same data (one cookie.maxAge), their calls overlapping.                 *)
(***************************************************************************)
MaxTicksExpiry == 2
ExpirySessions == {SessionPlain}

NextExpiry ==
  \/ \E c \in Clients, sid \in Sids, session \in ExpirySessions : Set(c, sid, session)
  \/ \E c \in Clients, sid \in Sids, session \in ExpirySessions : Touch(c, sid, session)
  \/ \E c \in Clients : StoreApply(c)
  \/ \E c \in Clients : StoreFail(c)
  \/ \E c \in Clients : Return(c)
  \/ Tick(MaxTicksExpiry)

SpecExpiry == Init /\ [][NextExpiry]_vars

(***************************************************************************)
(* SpecDates: deepReplaceDatesWithISOStrings applied to values of every    *)
(* kind, Dates at depth 0 to 3 inside objects and arrays.                  *)
(***************************************************************************)
DateAtoms == {Undef, Null, Num(7), Str("x"), Bool(TRUE), DateV(0), DateV(500)}
DateFlat ==
  DateAtoms \cup {EmptyObj, Arr(<< >>)}
    \cup {Obj([a |-> x]) : x \in DateAtoms}
    \cup {Arr(<<x, y>>) : x, y \in {Null, Str("x"), DateV(500)}}
DateInputs ==
  DateFlat
    \cup {Obj([created |-> x, inner |-> y]) : x \in {Str("x"), DateV(500)}, y \in DateFlat}
    \cup {Arr(<<Obj([d |-> DateV(500), o |-> Arr(<<DateV(0), Undef>>)])>>),
          Obj([name |-> Str("John"), created |-> DateV(1),
               friends |-> Arr(<<Obj([name |-> Str("Jane"), created |-> DateV(2)])>>),
               latestLog |-> Obj([time |-> DateV(3), message |-> Str("Hello, world!")])])}

InitDates ==
  /\ now = NowStart
  /\ touchAfter \in TouchAfterValues
  /\ table = [k \in AllKeys |-> Undef]
  /\ calls = [c \in Callers |-> IdleCall]
  /\ hist = [k \in AllKeys |-> NoHist]
  /\ boot = [b \in AllBootstraps |-> IdleBoot]
  /\ ddb = MockedTable
  /\ conv \in {[input |-> v, original |-> v, output |-> NotCalled] : v \in DateInputs}

\* const result = deepReplaceDatesWithISOStrings(obj): obj is only read
Convert ==
  /\ conv.output = NotCalled
  /\ conv' = [conv EXCEPT !.output = deepReplaceDatesWithISOStrings(conv.input)]
  /\ UNCHANGED <<now, touchAfter, table, calls, hist, boot, ddb>>

NextDates == Convert

SpecDates == InitDates /\ [][NextDates]_vars

(***************************************************************************)
(* SpecLegacy: get on rows this store did not write.  connect-dynamodb,    *)
(* the store this one replaces, keeps the session data as a JSON string in *)
(* the sess attribute (README, "Migrating from connect-dynamodb"); other   *)
(* writers leave rows whose sess is missing, empty, or not JSON.           *)
(***************************************************************************)
MaxTicksLegacy == 3

\* JSON.stringify(v): the string, and with it what JSON.parse makes of it
JSONstringify(v) == [t |-> "string", s |-> "json", json |-> JsonRoundTrip(v)]

\* the session data the old store was given
LegacySessions == {SessionPlain, SessionRich, SessionDated}
\* the expires (seconds) of rows found in the table; -1 stands for none
LegacyExpires == {-1, 0, 1, 100}
\* the sess of the other rows: missing, empty, null, not JSON, and a map
ForeignPayloads == {Undef, Str(""), Null, Str("{not json"), Obj([user |-> Str("u9")])}

LegacyItem(k, expires, sess) ==
  LET f == (HashKey :> Str(k)) @@ [type |-> Str("connect-session")]
      g == IF expires < 0 THEN f ELSE f @@ [expires |-> Num(expires)] IN
  Obj(IF sess = Undef THEN g ELSE g @@ [sess |-> sess])

\* the old store's set: the row holds JSON.stringify(session)
LegacySet(k, session, expires) ==
  /\ table' = [table EXCEPT ![k] = LegacyItem(k, expires, JSONstringify(session))]
  /\ hist' = [hist EXCEPT ![k] = [NoHist EXCEPT !.putArg = session]]
  /\ UNCHANGED <<conv, boot, ddb, now, touchAfter, calls>>

\* another writer's row
ForeignPut(k, sess, expires) ==
  /\ table' = [table EXCEPT ![k] = LegacyItem(k, expires, sess)]
  /\ hist' = [hist EXCEPT ![k] = NoHist]
  /\ UNCHANGED <<conv, boot, ddb, now, touchAfter, calls>>

NextLegacy ==
  \/ \E k \in Keys, session \in LegacySessions, e \in LegacyExpires : LegacySet(k, session, e)
  \/ \E k \in Keys, sess \in ForeignPayloads, e \in LegacyExpires : ForeignPut(k, sess, e)
  \/ \E sid \in Sids : Get("c1", sid)
  \/ StoreApply("c1")
  \/ StoreFail("c1")
  \/ Return("c1")
  \/ \E k \in Keys : TtlSweep(k)
  \/ Tick(MaxTicksLegacy)

SpecLegacy == Init /\ [][NextLegacy]_vars

(***************************************************************************)
(* SpecTouches: two callers touching one session id with the same data,    *)
(* their calls overlapping.                                                *)
(***************************************************************************)
MaxTicksTouches == 7
\* carries the expires hint 4: under touchAfter 2 a touch writes from 4000 on
TouchSessions == {SessionRich}

NextTouches ==
  \/ \E c \in Clients, sid \in Sids, session \in TouchSessions : Touch(c, sid, session)
  \/ \E c \in Clients : StoreApply(c)
  \/ \E c \in Clients : StoreFail(c)
  \/ \E c \in Clients : Return(c)
  \/ Tick(MaxTicksTouches)

SpecTouches == Init /\ [][NextTouches]_vars

(***************************************************************************)
(* Properties of touch, get, set and destroy.                              *)
(***************************************************************************)
Success == Callback(Null, Undef)
NoSession == Callback(Null, Null)

\* caller c's operation receives its answer / runs its continuation
Answered(c) == calls[c].phase = "pending" /\ calls'[c].phase = "answered"
Returns(c) == calls[c].phase = "answered" /\ calls'[c].phase = "done"

\* a touch given session data that has a cookie
IsTouch(call) == call.op = "touch" /\ ~CookieAccessThrows(call.arg)

\* floor(now/1000) + cookie.originalMaxAge/1000 - (session.expires or 0)
\* is strictly greater than the window the touch used; in milliseconds
TouchCondition(call) ==
  LET oma == Prop(Prop(call.arg, "cookie"), "originalMaxAge")
      exp == Prop(call.arg, "expires") IN
  /\ oma.t \in {"number", "null"}
  /\ (call.at \div 1000) * 1000
       + (IF oma.t = "number" THEN oma.n ELSE 0)
       - (IF exp.t = "number" THEN exp.n ELSE 0) * 1000
     > call.window * 1000

C2_TouchAfterGetIsThrottled ==
  \A c \in Clients :
    LET call == calls[c]
        oma == Prop(Prop(call.arg, "cookie"), "originalMaxAge") IN
    ( /\ IsTouch(call) /\ call.from > 0
      /\ touchAfter > 0
      /\ oma.t = "number" /\ touchAfter * 1000 <= oma.n
      /\ call.at - call.from < touchAfter * 1000 )
    => call.nreq = 0

\* the smaller of two integers
Min(a, b) == IF a < b THEN a ELSE b

\* C3: the window a touch uses is min(touchAfter, floor(10% of the session's
\* nominal lifetime in seconds)).
C3_WindowIsMinOfTouchAfterAndTenth ==
  \A c \in Clients :
    LET call == calls[c]
        oma == Prop(Prop(call.arg, "cookie"), "originalMaxAge") IN
    (IsTouch(call) /\ oma.t = "number")
    => call.window = Min(touchAfter, oma.n \div 10000)

RECURSIVE JsonOnly(_)
\* built from JSON primitives, plain objects and arrays (undefined allowed
\* as the value of a property)
JsonOnly(v) ==
  CASE v.t = "object" -> \A k \in DOMAIN v.f : JsonOnly(v.f[k])
    [] v.t = "array" -> \A i \in 1..Len(v.e) : v.e[i].t # "undefined" /\ JsonOnly(v.e[i])
    [] OTHER -> v.t \in {"undefined", "null", "string", "number", "boolean"}

RECURSIVE WithoutUndefined(_)
\* the same value with the undefined-valued properties absent
WithoutUndefined(v) ==
  CASE v.t = "object" ->
         LET keep == {k \in DOMAIN v.f : v.f[k] # Undef} IN
         Obj([k \in keep |-> WithoutUndefined(v.f[k])])
    [] v.t = "array" -> Arr([i \in 1..Len(v.e) |-> WithoutUndefined(v.e[i])])
    [] OTHER -> v

\* C6: a get that reads, before its expiry, the row written by set(sid, d)
\* with d made of JSON values delivers exactly d with d's undefined-valued
\* properties absent: every other field with the same value and type, and
\* no id or expires housekeeping attribute added.
C6_GetDeliversWhatSetStored ==
  [][\A c \in Clients :
       ( /\ calls[c].op = "get" /\ Returns(c)
         /\ calls[c].resp.t = "item" /\ calls[c].resp.item # Undef
         /\ calls[c].src # Undef /\ JsonOnly(calls[c].src)
         /\ Prop(calls[c].resp.item, "expires").n * 1000 >= now )
       => calls'[c].cbs = <<Callback(Null, WithoutUndefined(calls[c].src))>>
    ]_vars

\* a get delivered SessionRich's data: nested values intact, the undefined
\* field gone, the session's own expires field kept, no id attribute added
C6_Witness ==
  \E c \in Clients :
    /\ calls[c].op = "get" /\ calls[c].phase = "done"
    /\ calls[c].cbs[1].err = Null
    /\ LET d == calls[c].cbs[1].data IN
       /\ Prop(d, "user") = Str("u2")
       /\ Prop(d, "expires") = Num(4)
       /\ DOMAIN d.f = {"user", "expires", "info", "cookie"}
       /\ DOMAIN Prop(d, "info").f = {"s", "n", "b", "z", "o", "l"}
       /\ Prop(Prop(d, "info"), "l") = Arr(<<Num(1), Str("a")>>)
       /\ Prop(Prop(d, "info"), "z") = Null

\* C7 as stated: a get issued after a destroy of its sid completed delivers
\* no session (null, no error) unless a set of that sid has completed since.
C7_NoSessionUntilSetCompletes ==
  \A c \in Clients :
    (calls[c].op = "get" /\ calls[c].phase = "done" /\ calls[c].dzC /\ ~calls[c].failed)
    => calls[c].cbs = <<NoSession>>

\* C7 amended: a get served after a destroy's delete took effect (at the
\* latest when the destroy completes) delivers no session unless the put of
\* a set has been applied since, writing touches in between included.
C7_NoSessionUntilPutApplied ==
  \A c \in Clients :
    (calls[c].op = "get" /\ calls[c].phase = "done" /\ calls[c].dzA /\ ~calls[c].failed)
    => calls[c].cbs = <<NoSession>>

\* after a completed destroy a writing touch re-created the row, and a get
\* that found that row delivered no session
C7_Witness ==
  \E c \in Clients :
    /\ calls[c].op = "get" /\ calls[c].phase = "done"
    /\ calls[c].dzA /\ calls[c].dzC /\ calls[c].found /\ calls[c].ttlSeen > 0
    /\ ~calls[c].failed /\ calls[c].cbs = <<NoSession>>

\* C8: a destroy of a key that has no row leaves the table as it is and
\* calls back with no error (so a second destroy ends as the first did).
C8_DestroyOfMissingRowSucceeds ==
  [][\A c \in Clients : calls[c].op = "destroy" =>
       /\ ( /\ Answered(c) /\ ~calls'[c].failed
            /\ table[calls[c].req.key] = Undef )
          => table' = table /\ calls'[c].resp = OkResp
       /\ (Returns(c) /\ ~calls[c].failed /\ ~calls[c].found)
          => calls'[c].cbs = <<Success>>
    ]_vars

\* a destroy found no row, succeeded, and the key still has no row
C8_Witness ==
  \E c \in Clients :
    /\ calls[c].op = "destroy" /\ calls[c].phase = "done"
    /\ ~calls[c].found /\ ~calls[c].failed /\ calls[c].cbs = <<Success>>
    /\ table[TableKey(calls[c].sid)] = Undef

\* floor((call time + cookie.maxAge) / 1000) when maxAge is a number,
\* floor((call time + 86,400,000) / 1000) otherwise
ExpectedExpires(session, t) ==
  LET maxAge == Prop(Prop(session, "cookie"), "maxAge") IN
  IF maxAge.t = "number" THEN (t + maxAge.n) \div 1000
  ELSE (t + 86400000) \div 1000

\* the expires value a put or update request carries
RequestExpires(req) ==
  IF req.cmd = "put" THEN Prop(req.item, "expires") ELSE Num(req.expires)

C10_GetNeverWrites ==
  [][\A c \in Clients :
       (calls'[c].op = "get" /\ calls'[c] # calls[c]) =>
         /\ table' = table
         /\ calls'[c].nreq = 1
         /\ calls'[c].req.cmd \in {"get", "none"}
    ]_vars

\* a get delivered a session and the row is as its last writer left it
C10_Witness ==
  \E c \in Clients :
    LET k == TableKey(calls[c].sid) IN
    /\ calls[c].op = "get" /\ calls[c].phase = "done"
    /\ calls[c].cbs[1].err = Null /\ calls[c].cbs[1].data.t = "object"
    /\ table[k] # Undef /\ hist[k].ttlAt = calls[c].ttlSeen
    /\ Prop(table[k], "sess") = calls[c].cbs[1].data

\* C11: a touch's update applied to an existing row changes nothing but the
\* row's expires attribute, whatever session data the touch was given, so
\* the row's payload stays the payload of the last set.
C11_TouchChangesOnlyExpires ==
  [][\A c \in Clients :
       LET k == TableKey(calls[c].sid) IN
       ( /\ calls[c].op = "touch" /\ Answered(c) /\ ~calls'[c].failed
         /\ table[k] # Undef ) =>
       /\ DOMAIN table'[k].f = DOMAIN table[k].f \cup {"expires"}
       /\ \A a \in DOMAIN table[k].f \ {"expires"} : table'[k].f[a] = table[k].f[a]
       /\ Prop(table'[k], "expires") = RequestExpires(calls[c].req)
       /\ (hist[k].putArg # Undef /\ JsonOnly(hist[k].putArg))
          => Prop(table'[k], "sess") = WithoutUndefined(hist[k].putArg)
    ]_vars

\* a row set with SessionRich had its expires rewritten by a touch that was
\* given SessionPlain, and still carries SessionRich's payload
C11_Witness ==
  \E k \in Keys :
    /\ table[k] # Undef
    /\ hist[k].putArg = SessionRich /\ hist[k].ttlArg = SessionPlain
    /\ Prop(table[k], "sess") = WithoutUndefined(SessionRich)
    /\ Prop(table[k], "expires") = Num(ExpectedExpires(SessionPlain, hist[k].ttlAt))

\* C12: a set's put, applied to whatever row was there, leaves exactly the
\* record of that set: attributes id, expires and sess only, expires computed
\* at that set's call, and as payload the set's data with no field of the
\* previous row surviving.
C12_SetReplacesWholeRecord ==
  [][\A c \in Clients :
       LET call == calls[c]
           row == table'[TableKey(call.sid)] IN
       (call.op = "set" /\ Answered(c) /\ ~calls'[c].failed) =>
       /\ row # Undef
       /\ DOMAIN row.f = {"id", "expires", "sess"}
       /\ Prop(row, "id") = Str("session#" \o call.sid)
       /\ Prop(row, "expires") = Num(ExpectedExpires(call.arg, call.at))
       /\ DOMAIN Prop(row, "sess").f \subseteq DOMAIN call.arg.f
       /\ JsonOnly(call.arg) => Prop(row, "sess") = WithoutUndefined(call.arg)
    ]_vars

\* a set of SessionPlain was applied on top of the row of a set of
\* SessionRich; the row has none of SessionRich's extra fields
C12_Witness ==
  \E c \in Clients :
    LET row == table[TableKey(calls[c].sid)] IN
    /\ calls[c].op = "set" /\ calls[c].phase = "answered"
    /\ calls[c].found /\ ~calls[c].failed
    /\ calls[c].src = SessionRich /\ calls[c].arg = SessionPlain
    /\ row # Undef
    /\ DOMAIN Prop(row, "sess").f = {"user", "cookie"}
    /\ Prop(Prop(row, "sess"), "user") = Str("u1")

\* C13: whatever the interleaving of concurrent sets and destroys of one
\* session id, the key either has no row or has exactly the record of the set
\* whose put was applied last: that set's payload and the expires computed at
\* that set's call, with no field of any other set merged in.
C13_LastAppliedPutWins ==
  \A k \in Keys :
    table[k] # Undef =>
      /\ hist[k].putArg \in WriterSessions
      /\ DOMAIN table[k].f = {"id", "expires", "sess"}
      /\ Prop(table[k], "sess") = WithoutUndefined(hist[k].putArg)
      /\ Prop(table[k], "expires") = Num(ExpectedExpires(hist[k].putArg, hist[k].ttlAt))

\* two sets of different data were in flight together; the one issued first
\* was applied last, on top of the other's row, and the row is exactly its
\* record
C13_Witness ==
  LET first == calls["c2"]
      second == calls["c1"]
      row == table[TableKey(first.sid)] IN
  /\ first.op = "set" /\ first.phase = "answered" /\ ~first.failed
  /\ second.op = "set" /\ second.phase = "answered" /\ ~second.failed
  /\ first.sid = second.sid /\ first.at < second.at
  /\ first.arg = SessionPlain /\ second.arg = SessionRich
  /\ first.src = SessionRich
  /\ row # Undef
  /\ Prop(row, "sess") = WithoutUndefined(SessionPlain)
  /\ Prop(row, "expires") = Num(ExpectedExpires(SessionPlain, first.at))

\* C14: every row of the table was brought into existence by a set: it holds
\* the record of the set whose put last wrote it.
C14_RowsComeFromSetOnly ==
  \A k \in Keys : table[k] # Undef => hist[k].putArg # Undef

\* C15: whatever the outcome and whatever the callback does, an operation
\* that has finished has invoked its callback exactly once.
C15_CallbackInvokedExactlyOnce ==
  \A c \in Callers : calls[c].phase = "done" => Len(calls[c].cbs) = 1

\* C16: a request that fails leaves the table as it was, and the operation
\* that sent it calls back once with the error the request was rejected
\* with (and no session), having sent that one request only.
C16_StoreErrorIsPassedOn ==
  [][\A c \in Clients :
       /\ (Answered(c) /\ calls'[c].failed) =>
            /\ table' = table
            /\ calls'[c].resp.t = "error" /\ calls'[c].resp.error \in StoreErrors
       /\ (Returns(c) /\ calls[c].failed) =>
            /\ calls'[c].cbs = <<Callback(calls[c].resp.error, Undef)>>
            /\ calls'[c].nreq = 1
            /\ table' = table
    ]_vars

\* a set of an existing session failed with InternalServerError, reported
\* exactly that, and the row is still the record of the earlier set
C16_Witness ==
  \E c \in Clients :
    LET k == TableKey(calls[c].sid) IN
    /\ calls[c].op = "set" /\ calls[c].phase = "done" /\ calls[c].failed
    /\ calls[c].nreq = 1
    /\ calls[c].cbs = <<Callback(Err("InternalServerError"), Undef)>>
    /\ table[k] # Undef /\ hist[k].putArg = SessionRich
    /\ Prop(table[k], "sess") = WithoutUndefined(SessionRich)

(***************************************************************************)
(* Properties of createTableIfNotExists.                                   *)
(***************************************************************************)
\* how many of the requests sent are of kind cmd
Count(sent, cmd) == Cardinality({j \in 1..Len(sent) : sent[j].cmd = cmd})

\* the bootstrap runs that have started
Started == {b \in Bootstraps : boot[b].pc # "idle"}

\* the initial describe resolved with a defined table
FoundTable(r) == r.first.t = "described" /\ r.first.table # Undef

\* C17: a run sends createTable exactly when its initial describeTable was
\* answered otherwise than with a defined table (it failed, or resolved
\* without a table); answered with a defined table, of any status, the run
\* has returned and that describe is the only request it sent.
C17_CreateTableIffNoTableDescribed ==
  \A b \in Started :
    LET r == boot[b] IN
    /\ r.sent[1].cmd = "DescribeTable"
    /\ r.first = NoAnswer => Len(r.sent) = 1
    /\ FoundTable(r) =>
         /\ r.pc = "returned"
         /\ Len(r.sent) = 1
         /\ r.via = "create" => r.promise = Done
    /\ (r.first # NoAnswer /\ ~FoundTable(r)) =>
         /\ Len(r.sent) >= 2 /\ r.sent[2].cmd = "CreateTable"
         /\ Count(r.sent, "CreateTable") = 1

\* the initial describe found a table that is still CREATING: the run
\* returned after that one request
C17_Witness ==
  \E b \in Started :
    /\ boot[b].first = Described("CREATING")
    /\ boot[b].pc = "returned" /\ Len(boot[b].sent) = 1

\* C18: a run sends at most one createTable and at most one updateTimeToLive;
\* the updateTimeToLive names attribute expires, is the last request sent,
\* and is sent only after createTable succeeded and a polling describe was
\* answered ACTIVE; once a poll was answered ACTIVE no further describe is
\* sent; when updateTimeToLive succeeds the run returns without error.
C18_CreateThenPollThenEnableTtl ==
  \A b \in Started :
    LET r == boot[b]
        n == Len(r.sent) IN
    /\ Count(r.sent, "CreateTable") <= 1
    /\ Count(r.sent, "UpdateTimeToLive") <= 1
    /\ \A j \in 1..n : r.sent[j].cmd = "UpdateTimeToLive" =>
         /\ j = n /\ j > 3
         /\ r.sent[j].AttributeName = "expires"
         /\ r.sent[2].cmd = "CreateTable" /\ r.created = Done
         /\ \A m \in 3..(j - 1) : r.sent[m].cmd = "DescribeTable"
         /\ Described("ACTIVE") \in r.polled
    /\ Described("ACTIVE") \in r.polled => r.sent[n].cmd = "UpdateTimeToLive"
    /\ r.pc \in {"poll", "sleep"} => Described("ACTIVE") \notin r.polled
    /\ (r.sent[n].cmd = "UpdateTimeToLive" /\ r.last = Done) =>
         /\ r.pc = "returned" /\ r.thrown = Undef
         /\ r.via = "create" => r.promise = Done

\* initial describe failed, createTable, polls answered CREATING then ACTIVE,
\* updateTimeToLive: five requests, and the run returned
C18_Witness ==
  \E b \in Started :
    LET r == boot[b] IN
    /\ r.pc = "returned" /\ r.first.t = "error"
    /\ r.polled = {Described("CREATING"), Described("ACTIVE")}
    /\ Len(r.sent) = 5
    /\ r.sent[2].cmd = "CreateTable" /\ r.sent[5] = UpdateTimeToLiveCommand
    /\ r.last = Done

\* C19: a run whose createTable succeeded and whose polling describes were
\* never answered ACTIVE (answered with another status, without a table, or
\* with an error) sends at most 10 polling describes and no updateTimeToLive,
\* does not throw, and when it has returned it has sent exactly 10.
C19_PollingGivesUpAfterTenAttempts ==
  \A b \in Started :
    LET r == boot[b] IN
    (r.created = Done /\ Described("ACTIVE") \notin r.polled) =>
      /\ Count(r.sent, "DescribeTable") <= 1 + 10
      /\ Count(r.sent, "UpdateTimeToLive") = 0
      /\ r.pc # "threw" /\ r.thrown = Undef
      /\ r.pc = "returned" =>
           /\ Count(r.sent, "DescribeTable") = 1 + 10
           /\ Len(r.sent) = 12
           /\ r.via = "create" => r.promise = Done

\* a run polled ten times, was answered CREATING, no table and an error but
\* never ACTIVE, and returned
C19_Witness ==
  \E b \in Started :
    LET r == boot[b] IN
    /\ r.pc = "returned" /\ r.created = Done
    /\ Count(r.sent, "DescribeTable") = 11
    /\ Described("CREATING") \in r.polled /\ NoTable \in r.polled
    /\ \E e \in BootErrors : Failure(e) \in r.polled
    /\ Described("ACTIVE") \notin r.polled

\* C20: a run whose createTable or updateTimeToLive was answered with an
\* error has thrown that error (DynamoDBStore.create's promise is rejected
\* with it) and sent nothing after the failed request; a run throws for no
\* other reason.
C20_CreateAndTtlErrorsAreFatal ==
  \A b \in Started :
    LET r == boot[b]
        n == Len(r.sent) IN
    /\ r.created.t = "error" =>
         /\ r.pc = "threw" /\ r.thrown = r.created.error
         /\ n = 2
         /\ r.via = "create" => r.promise = Failure(r.created.error)
    /\ (r.sent[n].cmd = "UpdateTimeToLive" /\ r.last.t = "error") =>
         /\ r.pc = "threw" /\ r.thrown = r.last.error
         /\ Count(r.sent, "UpdateTimeToLive") = 1
         /\ r.via = "create" => r.promise = Failure(r.last.error)
    /\ r.pc = "threw" =>
         /\ r.sent[n].cmd \in {"CreateTable", "UpdateTimeToLive"}
         /\ r.last.t = "error" /\ r.thrown = r.last.error

\* DynamoDBStore.create was rejected with the AccessDeniedException that
\* updateTimeToLive failed with
C20_Witness ==
  \E b \in Started :
    LET r == boot[b] IN
    /\ r.via = "create" /\ r.pc = "threw"
    /\ r.sent[Len(r.sent)].cmd = "UpdateTimeToLive"
    /\ r.promise = Failure(Err("AccessDeniedException"))

(***************************************************************************)
(* Properties of createTableIfNotExists against DynamoDB (SpecTable).      *)
(***************************************************************************)
\* C21, as stated: whenever a run of createTableIfNotExists has returned
\* without an error, the table exists and its TimeToLive is enabled.
C21_ReturnedMeansTableWithTtl ==
  \A b \in Started :
    boot[b].pc = "returned" => ddb.status # "ABSENT" /\ ddb.ttl

\* C21, corrected: whenever a run has returned without an error the table
\* exists (being created, or active); its TimeToLive is known to be enabled
\* only if the run sent updateTimeToLive, which it does only after creating
\* the table itself and seeing it ACTIVE.  A run that found the table in its
\* initial describe, or whose ten polls never saw ACTIVE, returns without
\* an error and without having enabled TimeToLive.
C21_ReturnedMeansTableAndTtlIfEnabledByRun ==
  \A b \in Started :
    LET r == boot[b] IN
    r.pc = "returned" =>
      /\ ddb.status \in {"CREATING", "ACTIVE"}
      /\ Count(r.sent, "UpdateTimeToLive") = 1 => ddb.status = "ACTIVE" /\ ddb.ttl
      /\ Count(r.sent, "UpdateTimeToLive") = 0 =>
           FoundTable(r) \/ (r.i = MaxPolls /\ ~r.tableReady)

\* create resolved after a run that created the table, saw it ACTIVE and
\* enabled TimeToLive
C21_Witness ==
  \E b \in Started :
    LET r == boot[b] IN
    /\ r.via = "create" /\ r.pc = "returned" /\ r.promise = Done
    /\ Count(r.sent, "CreateTable") = 1 /\ Count(r.sent, "UpdateTimeToLive") = 1
    /\ ddb = [status |-> "ACTIVE", ttl |-> TRUE]

(***************************************************************************)
(* Properties of the constructor and DynamoDBStore.create.                 *)
(***************************************************************************)
\* C22, as stated: every createTable request names the configured table,
\* has the configured hashKey as its only key, and carries the
\* createTableOptions the caller passed, whether the run was started by
\* the constructor or awaited by DynamoDBStore.create.
C22_CreateTableCarriesOverrides ==
  \A b \in Started :
    LET r == boot[b] IN
    \A j \in 1..Len(r.sent) :
      r.sent[j].cmd = "CreateTable" =>
        /\ r.sent[j].TableName = "sessions"
        /\ r.sent[j].hashKey = HashKey
        /\ r.sent[j].overrides = r.options

\* C23: DynamoDBStore.create given createTableOptions starts exactly one run
\* of createTableIfNotExists (the constructor it calls starts none) and its
\* promise settles only once that run has ended: resolved if the run
\* returned, rejected if it threw.  Given no createTableOptions, neither
\* create nor the constructor starts a run or sends a request.
C23_CreateAwaitsItsOnlyRun ==
  \A b \in Bootstraps :
    LET r == boot[b] IN
    /\ (r.via = "create" /\ r.options = "given") =>
         /\ r.runs = 1 /\ r.pc # "idle"
         /\ Count(r.sent, "DescribeTable") >= 1
         /\ r.promise # NoAnswer <=> r.pc \in {"returned", "threw"}
         /\ r.promise = Done <=> r.pc = "returned"
    /\ r.options = "none" =>
         /\ r.runs = 0 /\ r.pc = "idle" /\ r.sent = << >>
         /\ r.via = "create" => r.promise = Done

\* create given createTableOptions resolved after its run created the table
C23_Witness ==
  \E b \in Bootstraps :
    LET r == boot[b] IN
    /\ r.via = "create" /\ r.options = "given" /\ r.runs = 1
    /\ r.pc = "returned" /\ r.promise = Done
    /\ Count(r.sent, "CreateTable") = 1

(***************************************************************************)
(* Properties of the stored payload.                                       *)
(***************************************************************************)
\* C24, as stated: the payload a set stored holds every Date of the session
\* data, at any depth, as its ISO string, and every other field as the
\* document client stores it (so that a later get returns those strings).
C24_DatesStoredAsISOStrings ==
  \A k \in Keys :
    (table[k] # Undef /\ "sess" \in DOMAIN table[k].f /\ hist[k].putArg # Undef) =>
      table[k].f.sess =
        Marshall(deepReplaceDatesWithISOStrings(SessAttribute(hist[k].putArg)))

(***************************************************************************)
(* Properties of get on rows this store did not write (SpecLegacy).        *)
(***************************************************************************)
\* the row a get was answered with, when there is one that has not expired
\* by the time the continuation runs
ReadsLiveRow(c) ==
  /\ Returns(c) /\ calls[c].op = "get"
  /\ calls[c].resp.t = "item" /\ calls[c].resp.item # Undef
  /\ ~(/\ Prop(calls[c].resp.item, "expires").t = "number"
       /\ Prop(calls[c].resp.item, "expires").n * 1000 < now)

RowSess(c) == Prop(calls[c].resp.item, "sess")

\* C25: a get answered with an unexpired row whose sess is the JSON string
\* the old store serialized invokes its callback once, with a null error
\* and the value that string parses to: the JSON value of the session data
\* the old store was given.
C25_LegacyJsonStringIsParsed ==
  [][\A c \in Callers :
       (ReadsLiveRow(c) /\ RowSess(c).t = "string" /\ "json" \in DOMAIN RowSess(c)) =>
         /\ calls'[c].cbs = <<Callback(Null, RowSess(c).json)>>
         /\ RowSess(c) = JSONstringify(calls[c].src)
         /\ RowSess(c).json = JsonRoundTrip(calls[c].src)]_vars

\* a get delivered the session data the old store had stored as a string
C25_Witness ==
  /\ calls["c1"].op = "get" /\ calls["c1"].phase = "done"
  /\ calls["c1"].cbs = <<Callback(Null, SessionPlain)>>
  /\ table[TableKey("a")] = LegacyItem(TableKey("a"), 100, JSONstringify(SessionPlain))

\* C26: a get answered with an unexpired row whose sess is a string that is
\* not JSON invokes its callback once, with the parse error and no session.
C26_UnparsableStringIsAnError ==
  [][\A c \in Callers :
       (ReadsLiveRow(c) /\ RowSess(c).t = "string" /\ RowSess(c).s # ""
          /\ "json" \notin DOMAIN RowSess(c)) =>
         calls'[c].cbs = <<Callback(Err("SyntaxError"), Undef)>>]_vars

\* a get of a row whose sess does not parse delivered the SyntaxError
C26_Witness ==
  /\ calls["c1"].op = "get" /\ calls["c1"].phase = "done"
  /\ calls["c1"].cbs = <<Callback(Err("SyntaxError"), Undef)>>
  /\ Prop(table[TableKey("a")], "sess") = Str("{not json")

C28_TouchAfterZeroAlwaysWrites ==
  \A c \in Clients :
    (IsTouch(calls[c]) /\ touchAfter = 0) => calls[c].nreq = 1

\* C29, as stated: the expires a touch writes is the call's clock plus the
\* session's original lifetime, floor((now + cookie.originalMaxAge) / 1000).
C29_TouchResetsToOriginalMaxAge ==
  \A c \in Clients :
    ( /\ IsTouch(calls[c]) /\ calls[c].phase \in {"pending", "answered"}
      /\ OriginalMaxAge(calls[c].arg).t = "number" )
    => RequestExpires(calls[c].req)
         = Num((calls[c].at + OmaMs(calls[c].arg)) \div 1000)

\* C30, as stated: a touch given session data that has neither
\* cookie.originalMaxAge nor a session.expires hint sends exactly one update.
C30_TouchWithoutOriginalMaxAgeWrites ==
  \A c \in Clients :
    ( /\ IsTouch(calls[c])
      /\ OriginalMaxAge(calls[c].arg) = Undef
      /\ Prop(calls[c].arg, "expires") = Undef )
    => calls[c].nreq = 1

(***************************************************************************)
(* Properties of overlapping touches (SpecTouches).                        *)
(***************************************************************************)
\* C31: of two touches of the same session id given the same session data,
\* each of which finds more time passed than its window, each sends its own
\* update, whether or not the other's update is still in flight or has been
\* applied: no touch is suppressed on account of another.
C31_OverlappingTouchesEachWrite ==
  \A c \in Clients : \A d \in Clients \ {c} :
    LET x == calls[c]
        y == calls[d] IN
    ( /\ IsTouch(x) /\ IsTouch(y)
      /\ x.sid = y.sid /\ x.arg = y.arg
      /\ TouchCondition(x) /\ TouchCondition(y) )
    => /\ x.nreq = 1 /\ y.nreq = 1
       /\ x.phase \in {"pending", "answered"} => x.req.cmd = "update"
       /\ y.phase \in {"pending", "answered"} => y.req.cmd = "update"

\* under touchAfter 2, two touches given SessionRich (expires hint 4) have
\* their updates in flight at once, called less than 2 s apart
C31_Witness ==
  /\ touchAfter = 2
  /\ calls["c1"].arg = SessionRich /\ calls["c2"].arg = SessionRich
  /\ calls["c1"].op = "touch" /\ calls["c2"].op = "touch"
  /\ calls["c1"].phase = "pending" /\ calls["c2"].phase = "pending"
  /\ calls["c1"].window = 2 /\ calls["c1"].at # calls["c2"].at
  /\ calls["c1"].at - calls["c2"].at < 2000 /\ calls["c2"].at - calls["c1"].at < 2000

(***************************************************************************)
(* Properties of a store used while its table is being set up              *)
(* (SpecBootOps).                                                          *)
(***************************************************************************)
\* C32: the constructor does not wait for the run it starts (nothing is
\* awaited: no promise settles).  Whatever state that run is in (under way,
\* returned with or without the table ready, thrown), a caller with no
\* operation in progress can start get, set, touch and destroy, a sent
\* request can be served and an answered one can call back; and what an
\* operation calls back with is success, a session, or the error its own
\* request failed with, never the error the run threw.
C32_OperationsIgnoreBootstrap ==
  /\ \A b \in Started : boot[b].via = "constructor" => boot[b].promise = NoAnswer
  /\ \A sid \in Sids :
       Free("c1") =>
         /\ ENABLED Get("c1", sid)
         /\ ENABLED Set("c1", sid, SessionPlain)
         /\ ENABLED Touch("c1", sid, SessionPlain)
         /\ ENABLED Destroy("c1", sid)
  /\ calls["c1"].phase = "pending" => ENABLED StoreApply("c1")
  /\ calls["c1"].phase = "answered" => ENABLED Return("c1")
  /\ calls["c1"].phase = "done" =>
       /\ Len(calls["c1"].cbs) = 1
       /\ calls["c1"].cbs[1].err \in {Null} \cup StoreErrors
       /\ calls["c1"].failed <=> calls["c1"].cbs[1].err \in StoreErrors

\* the run threw (createTable was refused) and a get has since delivered a
\* session that a set stored
C32_Witness ==
  /\ \E b \in Started : boot[b].pc = "threw" /\ boot[b].via = "constructor"
  /\ calls["c1"].op = "get" /\ calls["c1"].phase = "done"
  /\ calls["c1"].cbs = <<Callback(Null, Marshall(SessAttribute(SessionPlain)))>>

(***************************************************************************)
(* Properties of a store used with several session ids (SpecKeys).         *)
(***************************************************************************)
\* C33: every request an operation on session id s sends has the key
\* prefix ++ s; the row of a key changes only when the table serves a set,
\* touch or destroy of the session id with that key (or the TTL sweep
\* removes it), so operations on another session id leave it as it is; and
\* the session a get delivers is the sess of the row whose id is prefix ++ s.
C33_OperationsAddressOnlyTheirKey ==
  [][/\ \A c \in Clients :
          calls'[c].phase = "pending" => calls'[c].req.key = "session#" \o calls'[c].sid
     /\ \A k \in AllKeys :
          table'[k] # table[k] =>
            \/ table'[k] = Undef /\ Prop(table[k], "expires").n * 1000 < now
                  /\ calls' = calls
            \/ \E c \in Clients :
                  /\ calls[c].phase = "pending" /\ calls'[c].phase = "answered"
                  /\ calls[c].op \in {"set", "touch", "destroy"}
                  /\ "session#" \o calls[c].sid = k
     /\ \A c \in Clients :
          (Returns(c) /\ calls[c].op = "get" /\ calls'[c].cbs[1].data.t = "object") =>
            /\ Prop(calls[c].resp.item, "id") = Str("session#" \o calls[c].sid)
            /\ calls'[c].cbs[1].data = Prop(calls[c].resp.item, "sess")
    ]_vars

\* session id a holds SessionPlain and b holds SessionExpiring, written in that
\* order, and a get of a has delivered a's payload
C33_Witness ==
  /\ hist[TableKey("a")].putArg = SessionPlain
  /\ hist[TableKey("b")].putArg = SessionExpiring
  /\ hist[TableKey("a")].ttlAt < hist[TableKey("b")].ttlAt
  /\ calls["c1"].op = "get" /\ calls["c1"].sid = "a" /\ calls["c1"].phase = "done"
  /\ calls["c1"].cbs = <<Callback(Null, Marshall(SessAttribute(SessionPlain)))>>

(***************************************************************************)
(* Termination of createTableIfNotExists (SpecBootFair).                   *)
(***************************************************************************)
Running(b) == boot[b].pc \in {"describe", "create", "poll", "sleep", "ttl"}
Ended(b) == boot[b].pc \in {"returned", "threw"}

\* C34: a run of createTableIfNotExists whose every request is answered
\* ends, by returning or throwing; and at no time has it sent more than one
\* initial describeTable, one createTable, ten polling describeTables and
\* one updateTimeToLive: thirteen requests in all.
C34_BootstrapEndsWithinThirteenCalls ==
  /\ [](\A b \in Started :
          LET r == boot[b] IN
          /\ Len(r.sent) <= 13
          /\ Count(r.sent, "CreateTable") <= 1
          /\ Count(r.sent, "UpdateTimeToLive") <= 1
          /\ Count(r.sent, "DescribeTable") <= 1 + 10
          /\ r.sent[1].cmd = "DescribeTable")
  /\ \A b \in Bootstraps : Running(b) ~> Ended(b)

\* a run that sent all thirteen requests and returned
C34_Witness ==
  \E b \in Started :
    /\ boot[b].pc = "returned" /\ Len(boot[b].sent) = 13
    /\ Count(boot[b].sent, "DescribeTable") = 11

(***************************************************************************)
(* Properties of two overlapping runs (SpecTwoBoots).                      *)
(***************************************************************************)
InUse == Failure(Err("ResourceInUseException"))

\* C35: of the runs under way or ended, at most one had its createTable
\* succeed; a run whose createTable was rejected because the table exists
\* already has thrown that error (create's promise is rejected with it),
\* createTable is the last request it sent: it polled nothing and sent no
\* updateTimeToLive.
C35_RejectedCreateTableEndsTheRun ==
  /\ Cardinality({b \in AllBootstraps : boot[b].created = Done}) <= 1
  /\ \A b \in AllBootstraps :
       LET r == boot[b] IN
       r.created = InUse =>
         /\ r.pc = "threw" /\ r.thrown = InUse.error
         /\ Len(r.sent) = 2 /\ r.sent[2].cmd = "CreateTable"
         /\ r.polled = {} /\ Count(r.sent, "UpdateTimeToLive") = 0
         /\ r.via = "create" => r.promise = InUse

\* both runs found no table; b1 created it, saw it ACTIVE and enabled the
\* TTL, b2's createTable was rejected and DynamoDBStore.create rejected
C35_Witness ==
  /\ boot["b1"].created = Done /\ boot["b1"].pc = "returned"
  /\ Count(boot["b1"].sent, "UpdateTimeToLive") = 1
  /\ boot["b2"].first = Failure(Err("ResourceNotFoundException"))
  /\ boot["b2"].created = InUse /\ boot["b2"].via = "create"
  /\ boot["b2"].promise = InUse

(***************************************************************************)
(* Properties of the throttle window (SpecWindow).                         *)
(***************************************************************************)
\* C36, as stated: whenever cookie.originalMaxAge is a positive number, the
\* window a touch uses (seconds) is strictly smaller than that lifetime.
C36_WindowShorterThanLifetime ==
  \A c \in Clients :
    ( /\ IsTouch(calls[c])
      /\ OriginalMaxAge(calls[c].arg).t = "number" /\ OmaMs(calls[c].arg) > 0 )
    => calls[c].window * 1000 < OmaMs(calls[c].arg)

(***************************************************************************)
(* Properties of get's expiry test (SpecLegacy).                           *)
(***************************************************************************)
\* C37: a get answered with a row whose sess is a map calls back with no
\* session exactly when the row has an expires that is not 0 and
\* expires * 1000 is less than the clock when the continuation runs; in
\* every other case (no expires, expires 0, expires * 1000 equal to or
\* greater than the clock) it delivers the row's sess.
C37_ExpiredOnlyIfStrictlyPast ==
  [][\A c \in Callers :
       ( /\ Returns(c) /\ calls[c].op = "get"
         /\ calls[c].resp.t = "item" /\ calls[c].resp.item # Undef
         /\ RowSess(c).t = "object" ) =>
       LET e == Prop(calls[c].resp.item, "expires")
           expired == e.t = "number" /\ e.n # 0 /\ e.n * 1000 < now IN
       calls'[c].cbs = IF expired THEN <<NoSession>>
                       ELSE <<Callback(Null, RowSess(c))>>]_vars

\* at clock 1000 a get delivered the session of a row whose expires is 1
C37_Witness ==
  /\ now = 1000
  /\ calls["c1"].op = "get" /\ calls["c1"].phase = "done"
  /\ calls["c1"].cbs = <<Callback(Null, Obj([user |-> Str("u9")]))>>
  /\ table[TableKey("a")] = LegacyItem(TableKey("a"), 1, Obj([user |-> Str("u9")]))

(***************************************************************************)
(* Properties of the stored expires over several writes (SpecExpiry).      *)
(***************************************************************************)
\* a set or writing touch whose write the table has applied and which has
\* not called back yet
Applied(c) ==
  /\ calls[c].op \in {"set", "touch"} /\ calls[c].phase = "answered"
  /\ ~calls[c].failed

StoredExpires(sid) == Prop(table[TableKey(sid)], "expires")

\* C38, as stated: once the write of a set or touch has been applied, the
\* stored expires of that session id is never less than the expires that
\* write stored (one session id, one cookie.maxAge, the clock never going
\* back).
C38_StoredExpiresNeverDecreases ==
  \A c \in Clients :
    Applied(c) => StoredExpires(calls[c].sid).n >= RequestExpires(calls[c].req).n

\* C38, corrected: the stored expires is never less than what an applied
\* write stored as long as the write applied last is of a call made no
\* earlier than that one, which is always so when every call is made after
\* the one before it has called back.  Writes of overlapping calls can be
\* applied against the order of the calls, and the stored expires is then
\* that of the earlier call: it decreases.
C38_StoredExpiresFollowsCallOrder ==
  \A c \in Clients :
    Applied(c) =>
      LET k == TableKey(calls[c].sid) IN
      /\ hist[k].ttlAt >= calls[c].at =>
           StoredExpires(calls[c].sid).n >= RequestExpires(calls[c].req).n
      /\ StoredExpires(calls[c].sid).n < RequestExpires(calls[c].req).n =>
           hist[k].ttlAt < calls[c].at

\* c1's write (called at 1000) was applied, then c2's (a touch called at
\* 2000): the stored expires went up from 3 to 4
C38_Witness ==
  /\ Applied("c1") /\ Applied("c2")
  /\ calls["c1"].at = 1000 /\ calls["c2"].at = 2000 /\ calls["c2"].op = "touch"
  /\ RequestExpires(calls["c1"].req) = Num(3)
  /\ StoredExpires("a") = Num(4)

(***************************************************************************)
(* Properties of set and touch given session data without a cookie.        *)
(***************************************************************************)
\* C39: a set or touch given session data whose cookie is undefined or null
\* has sent no request, has called back (once, unless the callback throws)
\* with the TypeError, and is finished as soon as it was called: the table
\* is as it was.
C39_MissingCookieIsReportedThroughCallback ==
  \A c \in Clients :
    ( /\ calls[c].op \in {"set", "touch"} /\ calls[c].arg.t = "object"
      /\ Prop(calls[c].arg, "cookie").t \in {"undefined", "null"} )
    => /\ calls[c].nreq = 0 /\ calls[c].req = NoReq
       /\ calls[c].phase = "done"
       /\ calls[c].cbs = <<Callback(Err("TypeError"), Undef)>>

\* a touch of the session without a cookie was answered with the TypeError
\* while the row a set stored is still there
C39_Witness ==
  /\ calls["c1"].op = "touch" /\ calls["c1"].arg = SessionNoCookie
  /\ calls["c1"].cbs = <<Callback(Err("TypeError"), Undef)>>
  /\ hist[TableKey("a")].putArg = SessionPlain
  /\ table[TableKey("a")] # Undef

(***************************************************************************)
(* Properties of deepReplaceDatesWithISOStrings (SpecDates).               *)
(***************************************************************************)
RECURSIVE DatesReplaced(_, _)
\* out has the shape of in, an ISO string where in has a Date, and in's
\* value everywhere else
DatesReplaced(in, out) ==
  CASE in.t = "Date" -> out = Str("ISO-" \o ToString(in.ms) \o "Z")
    [] in.t = "array" ->
         /\ out.t = "array" /\ Len(out.e) = Len(in.e)
         /\ \A i \in 1..Len(in.e) : DatesReplaced(in.e[i], out.e[i])
    [] in.t = "object" ->
         /\ out.t = "object" /\ DOMAIN out.f = DOMAIN in.f
         /\ \A k \in DOMAIN in.f : DatesReplaced(in.f[k], out.f[k])
    [] OTHER -> out = in

RECURSIVE HasDate(_)
HasDate(v) ==
  CASE v.t = "Date" -> TRUE
    [] v.t = "array" -> \E i \in 1..Len(v.e) : HasDate(v.e[i])
    [] v.t = "object" -> \E k \in DOMAIN v.f : HasDate(v.f[k])
    [] OTHER -> FALSE

\* C40: what deepReplaceDatesWithISOStrings returns has the shape of its
\* argument (arrays of the same length, objects with the same keys), the
\* ISO string of every Date of the argument at any depth in its place,
\* every other value (undefined and null among them) as it was, and no
\* Date; the argument is afterwards what it was before.
C40_DatesReplacedInputKept ==
  conv.output # NotCalled =>
    /\ DatesReplaced(conv.input, conv.output)
    /\ ~HasDate(conv.output)
    /\ conv.input = conv.original
    /\ ~HasDate(conv.input) => conv.output = conv.input

\* the function returned for an array holding an object with a Date and an
\* array with a Date and undefined
C40_Witness ==
  /\ conv.input = Arr(<<Obj([d |-> DateV(500), o |-> Arr(<<DateV(0), Undef>>)])>>)
  /\ conv.output =
       Arr(<<Obj([d |-> Str("ISO-500Z"), o |-> Arr(<<Str("ISO-0Z"), Undef>>)])>>)

====
